---------------------------- MODULE Spec2Model ----------------------------
(***************************************************************************)
(* TripGenie: the recommendation pipeline (intent extraction, plan         *)
(* generation, flight search, cost, confidence) and the evaluator          *)
(* (heuristic checks, model-judged rubric, weighted score and grade),      *)
(* together with the shared metrics tracker, the token cache of the flight *)
(* API and the session state of the web page.                              *)
(*                                                                         *)
(* Conventions.                                                            *)
(*  - An Optional[T] value is a sequence of length <= 1: <<>> is None and  *)
(*    <<x>> is x.                                                          *)
(*  - Money is in whole dollars.  Evaluation scores are in tenths          *)
(*    (10.0 is 100).  Intent confidence is in hundredths (0.1 is 10); the  *)
(*    overall confidence of a recommendation is in six-hundredths, so that *)
(*    a mean over two or three terms is an integer.                        *)
(*  - A response text of the text service is a sequence of tokens: "bt3" *)
(*    (three backticks), "json", "\n", "prose" and "J", where "J" stands   *)
(*    for the serialised payload carried beside the text.  A payload with  *)
(*    backticks inside a string value is the tokens "J<", "bt3", "{}",     *)
(*    "bt3", ">J".                                                         *)
(*  - The clock counts calls in the pipeline and the evaluator, seconds    *)
(*    where search_flights is called repeatedly, and statements where two  *)
(*    writers share the tracker.                                           *)
(***************************************************************************)
EXTENDS Integers, Sequences, FiniteSets, TLC

VARIABLES
    pc,               \* position of process_query
    request,          \* arguments of process_query and the orchestrator's mode flag
    intent,           \* Optional[TravelIntent]: local of process_query
    validation,       \* Optional[(is_valid, missing)]: result of validate_intent
    trip_plan,        \* Optional[TripPlan]: local of process_query
    outbound_flights, \* Optional[FlightSearchResult]
    return_flights,   \* Optional[FlightSearchResult]
    total_cost,       \* local of process_query
    recommendation,   \* Optional[TripRecommendation]: the value returned
    intentResp,       \* what the text service answered to extract (history)
    planResp,         \* what the text service answered to plan_trip (history)
    flightCalls,      \* number of calls made to the flight API (history)
    epc,              \* position of evaluate
    rec,              \* the recommendation handed to evaluate
    metrics,          \* the EvaluationMetrics under construction
    rubricResp,       \* what the text service answered to the rubric call (history)
    requests,         \* MetricsTracker.requests, the ledger
    start_time,       \* MetricsTracker._start_time (Optional)
    now,              \* wall clock
    summary,          \* Optional: the value get_summary returned last
    exported,         \* Optional: the file export_json wrote last
    bpc,              \* position of batch_evaluate
    recommendations,  \* the list handed to batch_evaluate
    results,          \* local of batch_evaluate: the metrics collected so far
    aggregate,        \* Optional: the record batch_evaluate returned
    location,         \* Optional: the argument of _get_airport_code
    airport_code,     \* Optional: the code _get_airport_code returned
    access_token,     \* AmadeusFlightAPI.access_token (Optional)
    token_expires_at, \* AmadeusFlightAPI.token_expires_at (Optional)
    sent,             \* the requests sent to the pricing service (history)
    searches,         \* the calls of search_flights made in a row (history)
    writers,          \* the components using the shared tracker concurrently
    session_state,    \* st.session_state of the web page
    runs              \* what each run of the page did, in order (history)

pipeVars == <<pc, request, intent, validation, trip_plan, outbound_flights,
              return_flights, total_cost, recommendation, intentResp, planResp,
              flightCalls>>
evalVars == <<epc, rec, metrics, rubricResp>>
trackerVars == <<requests, start_time, now>>
reportVars == <<summary, exported>>
batchVars == <<bpc, recommendations, results, aggregate>>
airportVars == <<location, airport_code>>
apiVars == <<access_token, token_expires_at, sent, searches>>
extraVars == <<writers, session_state, runs>>
otherVars == <<reportVars, batchVars, airportVars, extraVars>>
vars == <<pipeVars, apiVars, evalVars, trackerVars, otherVars>>

----------------------------------------------------------------------------
(* Bounds of the model *)

MaxDays == 4
MaxOffers == 2
MaxTravelers == 2
MaxBatch == 2
MaxRequests == 2
MaxSearches == 3
MaxRuns == 4

----------------------------------------------------------------------------
(* Generic helpers *)

None == <<>>
Some(x) == <<x>>

\* Python truthiness of an Optional[str] / Optional[int] / Optional[float]
TruthyStr(o) == o # None /\ o[1] # ""
TruthyNum(o) == o # None /\ o[1] # 0

Max(a, b) == IF a >= b THEN a ELSE b

RECURSIVE SumSeq(_)
SumSeq(s) == IF s = <<>> THEN 0 ELSE Head(s) + SumSeq(Tail(s))

RECURSIVE MinSeq(_)
MinSeq(s) == IF Len(s) = 1 THEN s[1]
             ELSE LET m == MinSeq(Tail(s)) IN IF s[1] <= m THEN s[1] ELSE m

\* All sequences over S of length 0..n
SeqsUpTo(S, n) == UNION {[1..k -> S] : k \in 0..n}

\* num/den rounded to the nearest integer, ties to even
RoundHalfEven(num, den) ==
    LET q == num \div den
        r == num % den
    IN  IF 2 * r < den THEN q
        ELSE IF 2 * r > den THEN q + 1
        ELSE IF q % 2 = 0 THEN q ELSE q + 1

\* round(num/den) as binary floating point may give it: the nearest integer,
\* and either neighbour when num/den lies exactly half-way
Nearest(num, den) ==
    LET q == num \div den
        r == num % den
    IN  IF 2 * r < den THEN {q} ELSE IF 2 * r > den THEN {q + 1} ELSE {q, q + 1}

----------------------------------------------------------------------------
(* Metrics tracker: src/core/metrics.py *)

\* cost of one request in millionths of a dollar
RequestCost(input_tokens, output_tokens) == 3 * input_tokens + 15 * output_tokens

\* the record end_request appends
RequestMetrics(operation, input_tokens, output_tokens, success, st, t) ==
    [operation |-> operation,
     input_tokens |-> input_tokens,
     output_tokens |-> output_tokens,
     latency_ms |-> IF st # None THEN t - st[1] ELSE 0,
     cost_usd |-> RequestCost(input_tokens, output_tokens),
     success |-> success]

----------------------------------------------------------------------------
(* Text-service responses and the JSON clean-up shared by the three callers *)

\* JSON field values
JAbsent == [t |-> "absent"]
JNull == [t |-> "null"]
JBad == [t |-> "bad"]                  \* a value of a type the schema rejects
JStr(s) == [t |-> "str", s |-> s]
JNum(n) == [t |-> "num", n |-> n]
JNumStr(n) == [t |-> "numstr", n |-> n] \* a string float() converts, e.g. "8.5"
JList(l) == [t |-> "list", l |-> l]

IsWhitespace(tok) == tok = "\n"

RECURSIVE LStrip(_)
LStrip(s) == IF s # <<>> /\ IsWhitespace(Head(s)) THEN LStrip(Tail(s)) ELSE s

RECURSIVE RStrip(_)
RStrip(s) == IF s # <<>> /\ IsWhitespace(s[Len(s)])
             THEN RStrip(SubSeq(s, 1, Len(s) - 1)) ELSE s

\* str.strip()
Strip(s) == LStrip(RStrip(s))

\* the positions at which sep occurs in s
Occurrences(s, sep) ==
    {i \in 1..(Len(s) - Len(sep) + 1) : SubSeq(s, i, i + Len(sep) - 1) = sep}

\* sep in s
Contains(s, sep) == Occurrences(s, sep) # {}

FirstOcc(s, sep) == CHOOSE i \in Occurrences(s, sep) : \A j \in Occurrences(s, sep) : i <= j

\* s.split(sep)[0]
SplitHead(s, sep) ==
    IF Contains(s, sep) THEN SubSeq(s, 1, FirstOcc(s, sep) - 1) ELSE s

\* s.split(sep)[1:] joined back by sep: what follows the first occurrence
AfterFirst(s, sep) == SubSeq(s, FirstOcc(s, sep) + Len(sep), Len(s))

\* s.split(sep)[1], for s containing sep
SplitSecond(s, sep) == SplitHead(AfterFirst(s, sep), sep)

FenceJson == <<"bt3", "json">>
Fence == <<"bt3">>

\* the markdown clean-up applied before json.loads
CleanJson(response_text) ==
    IF Contains(response_text, FenceJson)
        THEN Strip(SplitHead(SplitSecond(response_text, FenceJson), Fence))
    ELSE IF Contains(response_text, Fence)
        THEN Strip(SplitHead(SplitSecond(response_text, Fence), Fence))
    ELSE response_text

\* a string value that holds two triple-backtick sequences with {} between them
Ticked == "see bt3{}bt3"

HoldsTicks(payload) ==
    \E f \in DOMAIN payload \ {"kind"} : payload[f] = JStr(Ticked)

\* the text of a payload: "J" when no string value holds backticks; otherwise
\* the backticks and what they enclose stand between its two parts
Serial(payload) ==
    IF HoldsTicks(payload) THEN <<"J<", "bt3", "{}", "bt3", ">J">> ELSE <<"J">>

\* the JSON object {}: the payload with no key
EmptyObject(payload) ==
    [f \in DOMAIN payload |-> IF f = "kind" THEN "object" ELSE JAbsent]

\* json.loads: [ok, value].  The text must be the text of the payload alone
\* (surrounding whitespace is accepted) and the payload must be well-formed
\* JSON; the text {} is the empty object.
JsonLoads(text, payload) ==
    IF Strip(text) = Serial(payload) /\ payload.kind # "malformed"
        THEN [ok |-> TRUE, value |-> payload]
    ELSE IF Strip(text) = <<"{}">>
        THEN [ok |-> TRUE, value |-> EmptyObject(payload)]
    ELSE [ok |-> FALSE, value |-> payload]

----------------------------------------------------------------------------
(* The tracker as the callers use it: tr = [requests, start_time] *)

\* MetricsTracker.start_request
StartRequest(tr, t) == [tr EXCEPT !.start_time = Some(t)]

\* end_request keeping only the record it makes
EndRequest_replacing(tr, operation, input_tokens, output_tokens, success, t) ==
    [requests |-> <<RequestMetrics(operation, input_tokens, output_tokens,
                                   success, tr.start_time, t)>>,
     start_time |-> None]

\* MetricsTracker.end_request
EndRequest(tr, operation, input_tokens, output_tokens, success, t) ==
    [requests |-> Append(tr.requests,
                         RequestMetrics(operation, input_tokens, output_tokens,
                                        success, tr.start_time, t)),
     start_time |-> None]

Tracker == [requests |-> requests, start_time |-> start_time]

\* MetricsTracker.get_summary: the records it may return.  total_cost_usd and
\* cost_per_request are in ten-thousandths of a dollar, avg_latency_ms in
\* hundredths of the unit of latency_ms, success_rate in hundredths of a percent.
get_summary(ledger) ==
    IF ledger = <<>>
    THEN {[total_requests |-> 0, total_cost_usd |-> 0, avg_latency_ms |-> 0,
           success_rate |-> 0, total_tokens |-> 0]}
    ELSE LET n == Len(ledger)
             cost_sum == SumSeq([k \in 1..n |-> ledger[k].cost_usd])
             latency == SumSeq([k \in 1..n |-> ledger[k].latency_ms])
             successes == Cardinality({k \in 1..n : ledger[k].success})
             total_tokens ==
                 SumSeq([k \in 1..n |-> ledger[k].input_tokens + ledger[k].output_tokens])
         IN  {[total_requests |-> n,
               total_cost_usd |-> c,
               avg_latency_ms |-> l,
               success_rate |-> r,
               total_tokens |-> total_tokens,
               cost_per_request |-> p] :
                 c \in Nearest(cost_sum, 100),
                 l \in Nearest(100 * latency, n),
                 r \in Nearest(10000 * successes, n),
                 p \in Nearest(cost_sum, 100 * n)}

\* MetricsTracker.export_json: the files it may write
export_json(ledger) ==
    {[summary |-> sm,
      requests |-> [k \in 1..Len(ledger) |->
                      [operation |-> ledger[k].operation,
                       tokens |-> ledger[k].input_tokens + ledger[k].output_tokens,
                       latency_ms |-> ledger[k].latency_ms,
                       cost_usd |-> ledger[k].cost_usd,
                       success |-> ledger[k].success]]] :
        sm \in get_summary(ledger)}

----------------------------------------------------------------------------
(* Intent extractor: src/agents/intent_extractor.py *)

\* TravelIntent with every field at its default
TravelIntentDefaults ==
    [destination |-> None,
     start_date |-> None,
     end_date |-> None,
     duration_days |-> None,
     num_travelers |-> 1,
     budget_usd |-> None,
     flight_class |-> "economy",
     original_query |-> "",
     confidence_score |-> 0]

\* pydantic validation of one field: [ok, v]
OptStrField(j) ==
    CASE j.t \in {"absent", "null"} -> [ok |-> TRUE, v |-> None]
      [] j.t = "str" -> [ok |-> TRUE, v |-> Some(j.s)]
      [] OTHER -> [ok |-> FALSE, v |-> None]

OptNumField(j) ==
    CASE j.t \in {"absent", "null"} -> [ok |-> TRUE, v |-> None]
      [] j.t \in {"num", "numstr"} -> [ok |-> TRUE, v |-> Some(j.n)]
      [] OTHER -> [ok |-> FALSE, v |-> None]

NumField(j, default) ==
    CASE j.t = "absent" -> [ok |-> TRUE, v |-> default]
      [] j.t \in {"num", "numstr"} -> [ok |-> TRUE, v |-> j.n]
      [] OTHER -> [ok |-> FALSE, v |-> default]

StrField(j, default) ==
    CASE j.t = "absent" -> [ok |-> TRUE, v |-> default]
      [] j.t = "str" -> [ok |-> TRUE, v |-> j.s]
      [] OTHER -> [ok |-> FALSE, v |-> default]

\* TravelIntent(**intent_data): [ok, value]; ok is FALSE for a ValidationError
ValidateTravelIntent(data, user_query) ==
    LET destination == OptStrField(data.destination)
        start == OptStrField(data.start_date)
        end == OptStrField(data.end_date)
        duration == OptNumField(data.duration_days)
        travelers == NumField(data.num_travelers, TravelIntentDefaults.num_travelers)
        budget == OptNumField(data.budget_usd)
        class == StrField(data.flight_class, TravelIntentDefaults.flight_class)
        confidence == NumField(data.confidence_score,
                               TravelIntentDefaults.confidence_score)
    IN  [ok |-> destination.ok /\ start.ok /\ end.ok /\ duration.ok /\ travelers.ok
                /\ budget.ok /\ class.ok /\ confidence.ok,
         value |-> [destination |-> destination.v,
                    start_date |-> start.v,
                    end_date |-> end.v,
                    duration_days |-> duration.v,
                    num_travelers |-> travelers.v,
                    budget_usd |-> budget.v,
                    flight_class |-> class.v,
                    original_query |-> user_query,
                    confidence_score |-> confidence.v]]

\* the except branch of extract: the intent returned on any failure
FallbackIntent(user_query) ==
    [TravelIntentDefaults EXCEPT !.original_query = user_query,
                                 !.confidence_score = 10]

\* the try block of extract, given the text service's answer resp, the tracker
\* tr and the time t1 at which the service answers: [ok, intent, tracker], ok
\* being FALSE when an exception leaves the block
extract_try(user_query, resp, tr, t1) ==
    LET loaded == JsonLoads(CleanJson(resp.text), resp.payload)
        \* intent_data['original_query'] = user_query needs a dict
        assigned == ~resp.raises /\ loaded.ok /\ loaded.value.kind = "object"
        tr2 == IF assigned
               THEN EndRequest(tr, "intent_extraction", resp.input_tokens,
                               resp.output_tokens, TRUE, t1)
               ELSE tr
        built == ValidateTravelIntent(loaded.value, user_query)
    IN  IF assigned /\ built.ok
        THEN [ok |-> TRUE, intent |-> built.value, tracker |-> tr2]
        ELSE [ok |-> FALSE, intent |-> TravelIntentDefaults, tracker |-> tr2]

\* extract with no except branch
extract_uncaught(user_query, resp, tr, t) ==
    LET try == extract_try(user_query, resp, StartRequest(tr, t), t + 1)
    IN  [raised |-> ~try.ok, intent |-> try.intent, tracker |-> try.tracker]

\* IntentExtractor.extract, entered at time t: [raised, intent, tracker]
extract(user_query, resp, tr, t) ==
    LET try == extract_try(user_query, resp, StartRequest(tr, t), t + 1)
    IN  IF try.ok
        THEN [raised |-> FALSE, intent |-> try.intent, tracker |-> try.tracker]
        ELSE [raised |-> FALSE,
              intent |-> FallbackIntent(user_query),
              tracker |-> EndRequest(try.tracker, "intent_extraction", 0, 0, FALSE,
                                     t + 1)]

\* validate_intent flagging a confidence of exactly 0.3 as well
validate_intent_inclusive(i) ==
    LET m1 == IF ~TruthyStr(i.destination) THEN <<"destination">> ELSE <<>>
        m2 == IF ~TruthyStr(i.start_date) /\ ~TruthyNum(i.duration_days)
              THEN <<"dates or duration">> ELSE <<>>
        m3 == IF i.confidence_score <= 30
              THEN <<"high confidence extraction">> ELSE <<>>
        missing == m1 \o m2 \o m3
    IN  [is_valid |-> Len(missing) = 0, missing |-> missing]

\* IntentExtractor.validate_intent: (is_valid, missing)
validate_intent(i) ==
    LET m1 == IF ~TruthyStr(i.destination) THEN <<"destination">> ELSE <<>>
        m2 == IF ~TruthyStr(i.start_date) /\ ~TruthyNum(i.duration_days)
              THEN <<"dates or duration">> ELSE <<>>
        m3 == IF i.confidence_score < 30
              THEN <<"high confidence extraction">> ELSE <<>>
        missing == m1 \o m2 \o m3
    IN  [is_valid |-> Len(missing) = 0, missing |-> missing]

----------------------------------------------------------------------------
(* Plan generator: src/agents/trip_planner.py *)

\* pydantic validation of daily_plans: a list of DayPlan objects
DayPlansField(j) ==
    IF j.t = "list" THEN [ok |-> TRUE, v |-> j.l] ELSE [ok |-> FALSE, v |-> <<>>]

\* a required field: absent is a ValidationError
ReqNumField(j) ==
    IF j.t \in {"num", "numstr"} THEN [ok |-> TRUE, v |-> j.n] ELSE [ok |-> FALSE, v |-> 0]

ReqStrField(j) ==
    IF j.t = "str" THEN [ok |-> TRUE, v |-> j.s] ELSE [ok |-> FALSE, v |-> ""]

\* TripPlan(**plan_data): [ok, value]
ValidateTripPlan(data) ==
    LET destination == ReqStrField(data.destination)
        duration == ReqNumField(data.duration_days)
        days == DayPlansField(data.daily_plans)
        cost == ReqNumField(data.total_estimated_cost)
    IN  [ok |-> destination.ok /\ duration.ok /\ days.ok /\ cost.ok,
         value |-> [destination |-> destination.v,
                    duration_days |-> duration.v,
                    daily_plans |-> days.v,
                    total_estimated_cost |-> cost.v]]

\* the try block of plan_trip: [ok, plan, tracker]
plan_try(resp, tr, t1) ==
    LET loaded == JsonLoads(CleanJson(resp.text), resp.payload)
        parsed == ~resp.raises /\ loaded.ok
        tr2 == IF parsed
               THEN EndRequest(tr, "trip_planning", resp.input_tokens,
                               resp.output_tokens, TRUE, t1)
               ELSE tr
        \* TripPlan(**plan_data) needs a mapping
        built == ValidateTripPlan(loaded.value)
    IN  IF parsed /\ loaded.value.kind = "object" /\ built.ok
        THEN [ok |-> TRUE, plan |-> Some(built.value), tracker |-> tr2]
        ELSE [ok |-> FALSE, plan |-> None, tracker |-> tr2]

\* plan_trip failing soft: an empty plan instead of the exception
plan_trip_fallback(i, resp, tr, t) ==
    LET try == plan_try(resp, StartRequest(tr, t), t + 1)
    IN  IF try.ok
        THEN [raised |-> FALSE, plan |-> try.plan, tracker |-> try.tracker]
        ELSE [raised |-> FALSE,
              plan |-> Some([destination |-> "", duration_days |-> 0,
                             daily_plans |-> <<>>, total_estimated_cost |-> 0]),
              tracker |-> EndRequest(try.tracker, "trip_planning", 0, 0, FALSE, t + 1)]

\* TripPlannerAgent.plan_trip, entered at time t: [raised, plan, tracker].  The
\* except branch records the failure and re-raises.
plan_trip(i, resp, tr, t) ==
    LET try == plan_try(resp, StartRequest(tr, t), t + 1)
    IN  IF try.ok
        THEN [raised |-> FALSE, plan |-> try.plan, tracker |-> try.tracker]
        ELSE [raised |-> TRUE,
              plan |-> None,
              tracker |-> EndRequest(try.tracker, "trip_planning", 0, 0, FALSE, t + 1)]

----------------------------------------------------------------------------
(* Flight API: src/api/flights.py *)

FlightOffer(price_usd, airline) == [price_usd |-> price_usd, airline |-> airline]

FlightSearchResult(date, offers, search_success, error_message) ==
    [date |-> date,
     offers |-> offers,
     search_success |-> search_success,
     error_message |-> error_message]

\* data.get('data', [])[:5]
TopOffers == 5

\* AmadeusFlightAPI._parse_flight_offers: an item that fails to parse is skipped
RECURSIVE ParseItems(_)
ParseItems(items) ==
    IF items = <<>> THEN <<>>
    ELSE IF Head(items).ok
         THEN <<FlightOffer(Head(items).price, Head(items).airline)>>
              \o ParseItems(Tail(items))
         ELSE ParseItems(Tail(items))

parse_flight_offers(data) ==
    ParseItems(SubSeq(data, 1, IF Len(data) < TopOffers THEN Len(data) ELSE TopOffers))

\* data.get('expires_in', 1800), and the 60 seconds taken off the lifetime
DefaultExpiresIn == 1800
ExpiryMargin == 60

\* the two fields of AmadeusFlightAPI that _get_access_token reads and writes
FlightApi(token, expires_at) == [access_token |-> token, token_expires_at |-> expires_at]

\* the test at the head of _get_access_token, with no look at the deadline
TokenValid_ignoring_deadline(api, t) ==
    /\ TruthyStr(api.access_token)
    /\ api.token_expires_at # None

\* the test at the head of _get_access_token: a token is cached and its deadline
\* is still ahead
TokenValid(api, t) ==
    /\ TruthyStr(api.access_token)
    /\ api.token_expires_at # None
    /\ t < api.token_expires_at[1]

\* AmadeusFlightAPI._get_access_token at time t, given how the token request
\* goes (out.auth): [token, api, requested].  An answer other than 200
\* ("denied"), a body without access_token ("no token") and a transport error
\* ("unreachable") end in the except branch with the fields untouched; a body
\* whose expires_in is not a number ("bad expiry") raises after access_token
\* was assigned.
get_access_token(api, t, out) ==
    IF TokenValid(api, t)
    THEN [token |-> api.access_token, api |-> api, requested |-> FALSE]
    ELSE IF out.auth = "granted"
         THEN LET expires_in == IF out.expires_in = None THEN DefaultExpiresIn
                                ELSE out.expires_in[1]
                  granted == FlightApi(Some("token"),
                                       Some(t + expires_in - ExpiryMargin))
              IN  [token |-> granted.access_token, api |-> granted, requested |-> TRUE]
    ELSE IF out.auth = "bad expiry"
         THEN [token |-> None,
               api |-> [api EXCEPT !.access_token = Some("token")],
               requested |-> TRUE]
    ELSE [token |-> None, api |-> api, requested |-> TRUE]

\* the requests search_flights puts on the wire
AuthRequest == [kind |-> "auth", departureDate |-> "", returnDate |-> None]
OfferQuery(departure_date, return_date) ==
    [kind |-> "offers",
     departureDate |-> departure_date,
     returnDate |-> IF TruthyStr(return_date) THEN return_date ELSE None]

\* the text of "API error: {response.status_code}"
ApiError(status) ==
    CASE status = "500" -> "API error: 500"
      [] status = "404" -> "API error: 404"
      [] OTHER -> "API error: 429"

\* the try block of search_flights, given how the offer request goes:
\* out.raises is the message of the exception requests.get raises, if any,
\* out.status the status code, out.body the kind of body, out.data its items.
\* [ok, result, error]: ok is FALSE when an exception leaves the block, error
\* being str(e)
search_try(departure_date, out) ==
    LET failed(message) ==
            [ok |-> FALSE,
             result |-> FlightSearchResult(departure_date, <<>>, FALSE, None),
             error |-> message]
    IN  IF out.raises # None THEN failed(out.raises[1])
        ELSE IF out.status # "200"
             THEN [ok |-> TRUE,
                   result |-> FlightSearchResult(departure_date, <<>>, FALSE,
                                                 Some(ApiError(out.status))),
                   error |-> ""]
        ELSE IF out.body = "malformed"      \* response.json() raises
             THEN failed("Expecting value: line 1 column 1 (char 0)")
        ELSE IF out.body = "nonobject"      \* data.get needs a dict
             THEN failed("'list' object has no attribute 'get'")
        ELSE [ok |-> TRUE,
              result |-> FlightSearchResult(departure_date,
                                            parse_flight_offers(out.data), TRUE, None),
              error |-> ""]

\* search_flights with no except branch
search_flights_uncaught(api, t, departure_date, return_date, out) ==
    LET tk == get_access_token(api, t, out)
        auth == IF tk.requested THEN <<AuthRequest>> ELSE <<>>
    IN  IF ~TruthyStr(tk.token)
        THEN [raised |-> FALSE,
              result |-> FlightSearchResult(departure_date, <<>>, FALSE,
                                            Some("Authentication failed")),
              api |-> tk.api,
              sent |-> auth]
        ELSE LET try == search_try(departure_date, out)
             IN  [raised |-> ~try.ok,
                  result |-> try.result,
                  api |-> tk.api,
                  sent |-> auth \o <<OfferQuery(departure_date, return_date)>>]

\* AmadeusFlightAPI.search_flights at time t: [raised, result, api, sent], api
\* being the token fields afterwards and sent the requests made
search_flights(api, t, departure_date, return_date, out) ==
    LET tk == get_access_token(api, t, out)
        auth == IF tk.requested THEN <<AuthRequest>> ELSE <<>>
    IN  IF ~TruthyStr(tk.token)
        THEN [raised |-> FALSE,
              result |-> FlightSearchResult(departure_date, <<>>, FALSE,
                                            Some("Authentication failed")),
              api |-> tk.api,
              sent |-> auth]
        ELSE LET try == search_try(departure_date, out)
                 result == IF try.ok THEN try.result
                           ELSE FlightSearchResult(departure_date, <<>>, FALSE,
                                                   Some(try.error))
             IN  [raised |-> FALSE,
                  result |-> result,
                  api |-> tk.api,
                  sent |-> auth \o <<OfferQuery(departure_date, return_date)>>]

\* AmadeusFlightAPI.get_mock_flights
get_mock_flights(departure_date) ==
    FlightSearchResult(departure_date,
                       <<FlightOffer(450, "TG"), FlightOffer(385, "SQ"),
                         FlightOffer(520, "EK")>>,
                       TRUE, None)

----------------------------------------------------------------------------
(* Orchestrator: src/agents/orchestrator.py *)

\* the condition of step 3 of process_query
WantsFlightSearch(include_flights, i) ==
    include_flights /\ TruthyStr(i.destination) /\ TruthyStr(i.start_date)

Prices(offers) == [k \in 1..Len(offers) |-> offers[k].price_usd]

\* the cost with the first offer taken for the cheapest
calculate_total_cost_first_offer(i, plan, flights) ==
    IF flights # None /\ flights[1].offers # <<>>
    THEN plan.total_estimated_cost
         + flights[1].offers[1].price_usd * i.num_travelers
           * (IF TruthyStr(i.end_date) THEN 2 ELSE 1)
    ELSE plan.total_estimated_cost

\* step 4 of process_query; flights is Optional[FlightSearchResult]
calculate_total_cost(i, plan, flights) ==
    IF flights # None /\ flights[1].offers # <<>>
    THEN plan.total_estimated_cost
         + MinSeq(Prices(flights[1].offers)) * i.num_travelers
           * (IF TruthyStr(i.end_date) THEN 2 ELSE 1)
    ELSE plan.total_estimated_cost

\* the plan term with a plan of exactly the requested length counted as short
plan_score_le(i, plan) ==
    IF plan.daily_plans = <<>> THEN 0
    ELSE IF Len(plan.daily_plans)
            <= (IF TruthyNum(i.duration_days) THEN i.duration_days[1] ELSE 1)
         THEN 70
         ELSE 100

\* the plan-completeness term of _calculate_confidence, in hundredths
plan_score(i, plan) ==
    IF plan.daily_plans = <<>> THEN 0
    ELSE IF Len(plan.daily_plans)
            < (IF TruthyNum(i.duration_days) THEN i.duration_days[1] ELSE 1)
         THEN 70
         ELSE 100

\* the scores _calculate_confidence averages, in hundredths
confidence_scores(i, plan, flights) ==
    <<i.confidence_score, plan_score(i, plan)>>
    \o (IF flights # None
        THEN <<IF flights[1].search_success /\ flights[1].offers # <<>>
               THEN 100 ELSE 50>>
        ELSE <<>>)

\* TripGenieOrchestrator._calculate_confidence, in six-hundredths
calculate_confidence(i, plan, flights) ==
    LET scores == confidence_scores(i, plan, flights)
    IN  (SumSeq(scores) * 6) \div Len(scores)

TripRecommendation(i, plan, outbound, return, cost, time, confidence) ==
    [intent |-> i,
     trip_plan |-> plan,
     outbound_flights |-> outbound,
     return_flights |-> return,
     total_cost_estimate |-> cost,
     generation_time_ms |-> time,
     confidence_score |-> confidence]

\* A location is a string, modelled as the sequence of its characters.
UpperCase == <<"A", "B", "C", "D", "E", "F", "G", "H", "I", "J", "K", "L", "M", "N", "O", "P", "Q", "R", "S", "T", "U", "V", "W", "X", "Y", "Z">>
LowerCase == <<"a", "b", "c", "d", "e", "f", "g", "h", "i", "j", "k", "l", "m", "n", "o", "p", "q", "r", "s", "t", "u", "v", "w", "x", "y", "z">>

\* str.lower()
Lower(text) ==
    [k \in 1..Len(text) |->
        IF \E n \in 1..Len(UpperCase) : UpperCase[n] = text[k]
        THEN LowerCase[CHOOSE n \in 1..Len(UpperCase) : UpperCase[n] = text[k]]
        ELSE text[k]]

\* airport_map, in the order of the dict literal
airport_map ==
    <<
      [key |-> <<"b", "a", "n", "g", "k", "o", "k">>,
       code |-> "BKK"],
      [key |-> <<"t", "h", "a", "i", "l", "a", "n", "d">>,
       code |-> "BKK"],
      [key |-> <<"n", "e", "w", " ", "y", "o", "r", "k">>,
       code |-> "JFK"],
      [key |-> <<"n", "y", "c">>,
       code |-> "JFK"],
      [key |-> <<"l", "o", "n", "d", "o", "n">>,
       code |-> "LHR"],
      [key |-> <<"p", "a", "r", "i", "s">>,
       code |-> "CDG"],
      [key |-> <<"t", "o", "k", "y", "o">>,
       code |-> "NRT"],
      [key |-> <<"s", "i", "n", "g", "a", "p", "o", "r", "e">>,
       code |-> "SIN"],
      [key |-> <<"d", "u", "b", "a", "i">>,
       code |-> "DXB"],
      [key |-> <<"h", "o", "n", "g", " ", "k", "o", "n", "g">>,
       code |-> "HKG"],
      [key |-> <<"b", "a", "l", "i">>,
       code |-> "DPS"],
      [key |-> <<"p", "h", "u", "k", "e", "t">>,
       code |-> "HKT"],
      [key |-> <<"m", "u", "m", "b", "a", "i">>,
       code |-> "BOM"],
      [key |-> <<"d", "e", "l", "h", "i">>,
       code |-> "DEL"],
      [key |-> <<"s", "y", "d", "n", "e", "y">>,
       code |-> "SYD"]
    >>

\* the lookup made on the location as written, not lowercased
get_airport_code_case_sensitive(loc) ==
    LET hits == {k \in 1..Len(airport_map) : Contains(loc, airport_map[k].key)}
    IN  IF hits = {} THEN "JFK"
        ELSE airport_map[CHOOSE k \in hits : \A j \in hits : k <= j].code

\* TripGenieOrchestrator._get_airport_code: the code of the first key of the
\* table, in its order, that the lowercased location contains
get_airport_code(loc) ==
    LET location_lower == Lower(loc)
        hits == {k \in 1..Len(airport_map) :
                    Contains(location_lower, airport_map[k].key)}
    IN  IF hits = {} THEN "JFK"
        ELSE airport_map[CHOOSE k \in hits : \A j \in hits : k <= j].code

----------------------------------------------------------------------------
(* What the text service and the pricing service may answer *)

Usage == [input_tokens |-> 120, output_tokens |-> 40]

Answer(text, payload) ==
    [raises |-> FALSE, text |-> text, payload |-> payload,
     input_tokens |-> Usage.input_tokens, output_tokens |-> Usage.output_tokens]

\* the payload alone, fenced as json, fenced bare, fenced with prose around
Plain == <<"J">>
Wrappings ==
    {Plain,
     <<"bt3", "json", "\n", "J", "\n", "bt3">>,
     <<"bt3", "\n", "J", "\n", "bt3">>,
     <<"prose", "\n", "bt3", "json", "\n", "J", "\n", "bt3", "\n", "prose">>}

InJsonFence(body) == <<"bt3", "json", "\n">> \o body \o <<"\n", "bt3">>
InBareFence(body) == <<"bt3", "\n">> \o body \o <<"\n", "bt3">>

\* text from which no JSON can be loaded
Unparseable == {<<"prose">>, <<"prose", "\n", "J">>, <<>>}

Queries == {"Weekend trip to Bangkok, budget $800", "5 days in Paris"}

IntentPayload(kind, d, s, e, du, n, b, c) ==
    [kind |-> kind, destination |-> d, start_date |-> s, end_date |-> e,
     duration_days |-> du, num_travelers |-> n, budget_usd |-> b,
     flight_class |-> JAbsent, confidence_score |-> c]

IntentObjects ==
    {IntentPayload("object", d, s, e, du, n, JNum(1000), c) :
        d \in {JNull, JStr(""), JStr("Paris")},
        s \in {JNull, JStr("2026-03-15")},
        e \in {JNull, JStr("2026-03-20")},
        du \in {JNull, JNum(2), JNum(MaxDays)},
        n \in {JAbsent, JNum(MaxTravelers)},
        c \in {JNum(20), JNum(90)}}

SampleIntent ==
    IntentPayload("object", JStr("Paris"), JStr("2026-03-15"), JStr("2026-03-20"),
                  JNum(2), JNum(MaxTravelers), JNum(1000), JNum(90))

\* objects the TravelIntent schema rejects
BadIntentObjects ==
    {[SampleIntent EXCEPT !.destination = JBad],
     [SampleIntent EXCEPT !.duration_days = JBad],
     [SampleIntent EXCEPT !.num_travelers = JNull],
     [SampleIntent EXCEPT !.confidence_score = JStr("high")]}

\* an intent whose destination holds backticks
TickedIntent == [SampleIntent EXCEPT !.destination = JStr(Ticked)]

Raises(payload) ==
    [raises |-> TRUE, text |-> <<>>, payload |-> payload,
     input_tokens |-> 0, output_tokens |-> 0]

IntentResponses ==
    {Answer(Plain, o) : o \in IntentObjects \cup BadIntentObjects}
    \cup {Answer(w, SampleIntent) : w \in Wrappings \cup Unparseable}
    \cup {Answer(w, TickedIntent) :
            w \in {Serial(TickedIntent), InJsonFence(Serial(TickedIntent)),
                   InBareFence(Serial(TickedIntent))}}
    \cup {Answer(Plain, [SampleIntent EXCEPT !.kind = "nonobject"]),
          Answer(Plain, [SampleIntent EXCEPT !.kind = "malformed"]),
          Raises(SampleIntent)}

DayPlan(day, morning, afternoon, evening) ==
    [day |-> day, morning |-> morning, afternoon |-> afternoon, evening |-> evening]

GoodDay(k) == DayPlan(k, "museum", "walk", "dinner")

PlanPayload(kind, dest, du, days, cost) ==
    [kind |-> kind, destination |-> dest, duration_days |-> du,
     daily_plans |-> days, total_estimated_cost |-> cost]

\* well-formed plans of every length 0..MaxDays, whatever was asked for
PlanObjects ==
    {PlanPayload("object", JStr("Paris"), JNum(2), JList([k \in 1..n |-> GoodDay(k)]),
                 JNum(700)) : n \in 0..MaxDays}

SamplePlan ==
    PlanPayload("object", JStr("Paris"), JNum(2), JList(<<GoodDay(1), GoodDay(2)>>),
                JNum(700))

\* objects the TripPlan schema rejects
BadPlanObjects ==
    {[SamplePlan EXCEPT !.daily_plans = JAbsent],
     [SamplePlan EXCEPT !.total_estimated_cost = JNull]}

PlanResponses ==
    {Answer(Plain, o) : o \in PlanObjects \cup BadPlanObjects}
    \cup {Answer(w, SamplePlan) : w \in Wrappings \cup {<<"prose">>}}
    \cup {Answer(Plain, [SamplePlan EXCEPT !.kind = "nonobject"]),
          Answer(Plain, [SamplePlan EXCEPT !.kind = "malformed"]),
          Raises(SamplePlan)}

OfferItems ==
    {[ok |-> TRUE, price |-> 300, airline |-> "AF"],
     [ok |-> TRUE, price |-> 450, airline |-> "TG"],
     [ok |-> FALSE, price |-> 0, airline |-> ""]}

\* how the pricing service may behave on the token request (auth, expires_in),
\* which is looked at only when a token is asked for, and on the offer request
PricingOutcome(auth, expires_in, raises, status, body, data) ==
    [auth |-> auth, expires_in |-> expires_in, raises |-> raises, status |-> status,
     body |-> body, data |-> data]

\* the lifetimes the pricing service may grant: none stated, shorter than the
\* margin, two minutes
Lifetimes == {None, Some(30), Some(120)}

OfferOutcomes(auth, expires_in) ==
    {PricingOutcome(auth, expires_in, Some("Connection timed out"), "none", "none", <<>>)}
    \cup {PricingOutcome(auth, expires_in, None, status, "object", <<>>) :
            status \in {"500", "404", "429"}}
    \cup {PricingOutcome(auth, expires_in, None, "200", body, <<>>) :
            body \in {"malformed", "nonobject"}}
    \cup {PricingOutcome(auth, expires_in, None, "200", "object", d) :
            d \in SeqsUpTo(OfferItems, MaxOffers)}

PricingOutcomes ==
    {PricingOutcome(auth, None, None, "none", "none", <<>>) :
        auth \in {"denied", "no token", "unreachable", "bad expiry"}}
    \cup UNION {OfferOutcomes("granted", e) : e \in Lifetimes}

Requests ==
    [user_query : Queries, include_flights : BOOLEAN, use_real_apis : BOOLEAN]

----------------------------------------------------------------------------
(* process_query, one action per stage *)

EvalIdle ==
    /\ epc = "idle"
    /\ rec = None
    /\ metrics = None
    /\ rubricResp = None

\* no summary asked for, nothing exported
ReportIdle ==
    /\ summary = None
    /\ exported = None

BatchIdle ==
    /\ bpc = "idle"
    /\ recommendations = <<>>
    /\ results = <<>>
    /\ aggregate = None

AirportIdle ==
    /\ location = None
    /\ airport_code = None

\* st.session_state: the two entries the page initialises to None, and the
\* content of the query box
SessionState(recommendation_, evaluation, query_input) ==
    [recommendation |-> recommendation_, evaluation |-> evaluation,
     query_input |-> query_input]

\* AmadeusFlightAPI.__init__: no token, and nothing sent yet
FlightApiInit ==
    /\ access_token = None
    /\ token_expires_at = None
    /\ sent = <<>>
    /\ searches = <<>>

\* no concurrent writer, and a page never opened
ExtraIdle ==
    /\ writers = <<>>
    /\ session_state = SessionState(None, None, "")
    /\ runs = <<>>

OtherIdle == ReportIdle /\ BatchIdle /\ AirportIdle /\ ExtraIdle

Init ==
    /\ pc = "extract"
    /\ request \in Requests
    /\ intent = None
    /\ validation = None
    /\ trip_plan = None
    /\ outbound_flights = None
    /\ return_flights = None
    /\ total_cost = 0
    /\ recommendation = None
    /\ intentResp = None
    /\ planResp = None
    /\ flightCalls = 0
    /\ EvalIdle
    /\ requests = <<>>
    /\ start_time = None
    /\ now = 1
    /\ OtherIdle
    /\ FlightApiInit

\* Step 1: intent_extractor.extract
ExtractIntent ==
    /\ pc = "extract"
    /\ \E resp \in IntentResponses :
        LET r == extract(request.user_query, resp, Tracker, now)
        IN  /\ intentResp' = Some(resp)
            /\ intent' = IF r.raised THEN None ELSE Some(r.intent)
            /\ requests' = r.tracker.requests
            /\ start_time' = r.tracker.start_time
            /\ pc' = IF r.raised THEN "raised" ELSE "validate"
    /\ now' = now + 1
    /\ UNCHANGED <<request, validation, trip_plan, outbound_flights, return_flights,
                   total_cost, recommendation, planResp, flightCalls, evalVars, otherVars, apiVars>>

\* a validation that stops the request when the intent is not valid
ValidateIntent_blocking ==
    /\ pc = "validate"
    /\ validation' = Some(validate_intent(intent[1]))
    /\ pc' = IF validation'[1].is_valid THEN "plan" ELSE "raised"
    /\ UNCHANGED <<request, intent, trip_plan, outbound_flights, return_flights,
                   total_cost, recommendation, intentResp, planResp, flightCalls,
                   evalVars, trackerVars, otherVars, apiVars>>

\* intent_extractor.validate_intent: its result is only printed
ValidateIntent ==
    /\ pc = "validate"
    /\ validation' = Some(validate_intent(intent[1]))
    /\ pc' = "plan"
    /\ UNCHANGED <<request, intent, trip_plan, outbound_flights, return_flights,
                   total_cost, recommendation, intentResp, planResp, flightCalls,
                   evalVars, trackerVars, otherVars, apiVars>>

\* Step 2: trip_planner.plan_trip; an exception is not caught
PlanTrip ==
    /\ pc = "plan"
    /\ \E resp \in PlanResponses :
        LET r == plan_trip(intent[1], resp, Tracker, now)
        IN  /\ planResp' = Some(resp)
            /\ trip_plan' = r.plan
            /\ requests' = r.tracker.requests
            /\ start_time' = r.tracker.start_time
            /\ pc' = IF r.raised THEN "raised" ELSE "flights"
    /\ now' = now + 1
    /\ UNCHANGED <<request, intent, validation, outbound_flights, return_flights,
                   total_cost, recommendation, intentResp, flightCalls, evalVars, otherVars, apiVars>>

\* Step 3 with use_real_apis: flight_api.search_flights
SearchRealFlights ==
    /\ pc = "flights"
    /\ WantsFlightSearch(request.include_flights, intent[1])
    /\ request.use_real_apis
    /\ \E out \in PricingOutcomes :
        LET r == search_flights(FlightApi(access_token, token_expires_at), now,
                                intent[1].start_date[1], intent[1].end_date, out)
        IN  /\ outbound_flights' = IF r.raised THEN None ELSE Some(r.result)
            /\ access_token' = r.api.access_token
            /\ token_expires_at' = r.api.token_expires_at
            /\ sent' = sent \o r.sent
            /\ pc' = IF r.raised THEN "raised" ELSE "cost"
    /\ flightCalls' = flightCalls + 1
    /\ UNCHANGED <<request, intent, validation, trip_plan, return_flights, total_cost,
                   recommendation, intentResp, planResp, searches, evalVars,
                   trackerVars, otherVars>>

\* Step 3 without: flight_api.get_mock_flights
SearchMockFlights ==
    /\ pc = "flights"
    /\ WantsFlightSearch(request.include_flights, intent[1])
    /\ ~request.use_real_apis
    /\ outbound_flights' = Some(get_mock_flights(intent[1].start_date[1]))
    /\ flightCalls' = flightCalls + 1
    /\ pc' = "cost"
    /\ UNCHANGED <<request, intent, validation, trip_plan, return_flights, total_cost,
                   recommendation, intentResp, planResp, evalVars, trackerVars, otherVars, apiVars>>

\* Step 3 skipped
SkipFlights ==
    /\ pc = "flights"
    /\ ~WantsFlightSearch(request.include_flights, intent[1])
    /\ pc' = "cost"
    /\ UNCHANGED <<request, intent, validation, trip_plan, outbound_flights,
                   return_flights, total_cost, recommendation, intentResp, planResp,
                   flightCalls, evalVars, trackerVars, otherVars, apiVars>>

\* Step 4
CalculateCost ==
    /\ pc = "cost"
    /\ total_cost' = calculate_total_cost(intent[1], trip_plan[1], outbound_flights)
    /\ pc' = "confidence"
    /\ UNCHANGED <<request, intent, validation, trip_plan, outbound_flights,
                   return_flights, recommendation, intentResp, planResp, flightCalls,
                   evalVars, trackerVars, otherVars, apiVars>>

\* Step 5 and the construction of the value returned
BuildRecommendation ==
    /\ pc = "confidence"
    /\ recommendation' =
          Some(TripRecommendation(intent[1], trip_plan[1], outbound_flights,
                                  return_flights, total_cost, now - 1,
                                  calculate_confidence(intent[1], trip_plan[1],
                                                       outbound_flights)))
    /\ pc' = "done"
    /\ UNCHANGED <<request, intent, validation, trip_plan, outbound_flights,
                   return_flights, total_cost, intentResp, planResp, flightCalls,
                   evalVars, trackerVars, otherVars, apiVars>>

Next ==
    \/ ExtractIntent
    \/ ValidateIntent
    \/ PlanTrip
    \/ SearchRealFlights
    \/ SearchMockFlights
    \/ SkipFlights
    \/ CalculateCost
    \/ BuildRecommendation

Spec == Init /\ [][Next]_vars

\* validate_intent alone, over intents with every field it reads absent, empty
\* or set, and confidences on both sides of 0.3
ValidationIntents ==
    {[TravelIntentDefaults EXCEPT !.destination = d,
                                  !.start_date = s,
                                  !.duration_days = du,
                                  !.original_query = "5 days in Paris",
                                  !.confidence_score = c] :
        d \in {None, Some(""), Some("Paris")},
        s \in {None, Some(""), Some("2026-03-15")},
        du \in {None, Some(0), Some(1), Some(MaxDays)},
        c \in {0, 10, 29, 30, 31, 90}}

ValInit ==
    /\ pc = "validate"
    /\ request = [user_query |-> "5 days in Paris", include_flights |-> FALSE,
                  use_real_apis |-> FALSE]
    /\ intent \in {Some(i) : i \in ValidationIntents}
    /\ validation = None
    /\ trip_plan = None
    /\ outbound_flights = None
    /\ return_flights = None
    /\ total_cost = 0
    /\ recommendation = None
    /\ intentResp = None
    /\ planResp = None
    /\ flightCalls = 0
    /\ EvalIdle
    /\ requests = <<>>
    /\ start_time = None
    /\ now = 2
    /\ OtherIdle
    /\ FlightApiInit

ValNext == ValidateIntent

ValSpec == ValInit /\ [][ValNext]_vars

----------------------------------------------------------------------------
(* Evaluator: src/evaluation/evaluator.py *)

\* EvaluationMetrics(latency_ms=..., cost_usd=...), the other fields at their defaults
EvaluationMetrics(latency_ms, cost_usd) ==
    [intent_match_score |-> 0,
     budget_adherence_score |-> 0,
     feasibility_score |-> 0,
     completeness_score |-> 0,
     coherence_score |-> 0,
     overall_score |-> 0,
     grade |-> "F",
     latency_ms |-> latency_ms,
     cost_usd |-> cost_usd,
     has_critical_errors |-> FALSE,
     error_messages |-> <<>>]

\* an entry of error_messages: the text with its two interpolated numbers
Message(kind, a, b) == [kind |-> kind, a |-> a, b |-> b]

\* Check 1 penalising only a plan shorter than stated
completeness_check_shorter(plan) ==
    IF plan.daily_plans = <<>>
    THEN [score |-> 0, critical |-> TRUE,
          messages |-> <<Message("No daily plans generated", 0, 0)>>]
    ELSE IF Len(plan.daily_plans) < plan.duration_days
    THEN [score |-> 50, critical |-> FALSE,
          messages |-> <<Message("Plan has {a} days but should have {b}",
                                 Len(plan.daily_plans), plan.duration_days)>>]
    ELSE [score |-> 100, critical |-> FALSE, messages |-> <<>>]

\* Check 1: [score, critical, messages]
completeness_check(plan) ==
    IF plan.daily_plans = <<>>
    THEN [score |-> 0, critical |-> TRUE,
          messages |-> <<Message("No daily plans generated", 0, 0)>>]
    ELSE IF Len(plan.daily_plans) # plan.duration_days
    THEN [score |-> 50, critical |-> FALSE,
          messages |-> <<Message("Plan has {a} days but should have {b}",
                                 Len(plan.daily_plans), plan.duration_days)>>]
    ELSE [score |-> 100, critical |-> FALSE, messages |-> <<>>]

\* Check 2 with the upper end of every band excluded
budget_check_strict(i, total_cost_estimate) ==
    IF TruthyNum(i.budget_usd) /\ i.budget_usd[1] > 0
    THEN LET budget == i.budget_usd[1]
         IN  IF total_cost_estimate < budget
                THEN [score |-> 100, messages |-> <<>>]
             ELSE IF 5 * total_cost_estimate < 6 * budget
                THEN [score |-> 70, messages |-> <<>>]
             ELSE IF 2 * total_cost_estimate < 3 * budget
                THEN [score |-> 40, messages |-> <<>>]
             ELSE [score |-> 20,
                   messages |-> <<Message("Budget exceeded: ${a} vs ${b}",
                                          total_cost_estimate, budget)>>]
    ELSE [score |-> 80, messages |-> <<>>]

\* Check 2: [score, messages]; the ratio cost / budget is compared exactly
budget_check(i, total_cost_estimate) ==
    IF TruthyNum(i.budget_usd) /\ i.budget_usd[1] > 0
    THEN LET budget == i.budget_usd[1]
         IN  IF total_cost_estimate <= budget
                THEN [score |-> 100, messages |-> <<>>]
             ELSE IF 5 * total_cost_estimate <= 6 * budget
                THEN [score |-> 70, messages |-> <<>>]
             ELSE IF 2 * total_cost_estimate <= 3 * budget
                THEN [score |-> 40, messages |-> <<>>]
             ELSE [score |-> 20,
                   messages |-> <<Message("Budget exceeded: ${a} vs ${b}",
                                          total_cost_estimate, budget)>>]
    ELSE [score |-> 80, messages |-> <<>>]

\* the loop of Check 3 from position k on, coherence being the running value
RECURSIVE CoherenceLoop(_, _, _, _)
CoherenceLoop(days, k, coherence, messages) ==
    IF k > Len(days) THEN [coherence |-> coherence, messages |-> messages]
    ELSE LET day == days[k]
             misnumbered == day.day # k
             c1 == IF misnumbered THEN coherence - 20 ELSE coherence
             m1 == IF misnumbered
                   THEN Append(messages, Message("Day numbering issue at day {a}", k, 0))
                   ELSE messages
             c2 == IF day.morning = "" \/ day.afternoon = "" \/ day.evening = ""
                   THEN c1 - 10 ELSE c1
         IN  CoherenceLoop(days, k + 1, c2, m1)

\* Check 3 without the floor at 0
coherence_check_unfloored(plan) ==
    LET r == CoherenceLoop(plan.daily_plans, 1, 100, <<>>)
    IN  [score |-> r.coherence, messages |-> r.messages]

\* Check 3: [score, messages]
coherence_check(plan) ==
    LET r == CoherenceLoop(plan.daily_plans, 1, 100, <<>>)
    IN  [score |-> Max(0, r.coherence), messages |-> r.messages]

\* TripEvaluator._run_heuristic_checks: the metrics after the three checks
run_heuristic_checks(r, m) ==
    LET c == completeness_check(r.trip_plan)
        b == budget_check(r.intent, r.total_cost_estimate)
        h == coherence_check(r.trip_plan)
    IN  [m EXCEPT !.completeness_score = c.score,
                  !.has_critical_errors = m.has_critical_errors \/ c.critical,
                  !.budget_adherence_score = b.score,
                  !.coherence_score = h.score,
                  !.error_messages = m.error_messages \o c.messages \o b.messages
                                     \o h.messages]

\* float(eval_data.get(key, 7.0)): [ok, v]
ScoreField(j) ==
    CASE j.t = "absent" -> [ok |-> TRUE, v |-> 70]
      [] j.t \in {"num", "numstr"} -> [ok |-> TRUE, v |-> j.n]
      [] OTHER -> [ok |-> FALSE, v |-> 0]

\* the try block of _run_llm_evaluation: [ok, metrics, tracker].  The scores are
\* assigned to the metrics one after the other, so a failure on the second
\* leaves the first assigned.
rubric_try(m, resp, tr, t1) ==
    LET loaded == JsonLoads(CleanJson(resp.text), resp.payload)
        \* eval_data.get needs a dict
        isDict == ~resp.raises /\ loaded.ok /\ loaded.value.kind = "object"
        im == ScoreField(loaded.value.intent_match_score)
        fe == ScoreField(loaded.value.feasibility_score)
        m1 == IF isDict /\ im.ok THEN [m EXCEPT !.intent_match_score = im.v] ELSE m
    IN  IF isDict /\ im.ok /\ fe.ok
        THEN [ok |-> TRUE,
              metrics |-> [m1 EXCEPT !.feasibility_score = fe.v],
              tracker |-> EndRequest(tr, "llm_evaluation", resp.input_tokens,
                                     resp.output_tokens, TRUE, t1)]
        ELSE [ok |-> FALSE, metrics |-> m1, tracker |-> tr]

\* a fallback that resets only the score not yet assigned
rubric_fallback_unassigned(m) ==
    [m EXCEPT !.intent_match_score = IF @ = 0 THEN 60 ELSE @,
              !.feasibility_score = 60]

\* the scores set by the except branch of _run_llm_evaluation
rubric_fallback(m) ==
    [m EXCEPT !.intent_match_score = 60, !.feasibility_score = 60]

\* _run_llm_evaluation whose except branch records nothing
run_llm_evaluation_unrecorded(m, resp, tr, t) ==
    LET try == rubric_try(m, resp, StartRequest(tr, t), t + 1)
    IN  IF try.ok
        THEN [raised |-> FALSE, metrics |-> try.metrics, tracker |-> try.tracker]
        ELSE [raised |-> FALSE,
              metrics |-> rubric_fallback(try.metrics),
              tracker |-> try.tracker]

\* _run_llm_evaluation with no except branch
run_llm_evaluation_uncaught(m, resp, tr, t) ==
    LET try == rubric_try(m, resp, StartRequest(tr, t), t + 1)
    IN  [raised |-> ~try.ok, metrics |-> try.metrics, tracker |-> try.tracker]

\* TripEvaluator._run_llm_evaluation, entered at time t: [raised, metrics, tracker]
run_llm_evaluation(m, resp, tr, t) ==
    LET try == rubric_try(m, resp, StartRequest(tr, t), t + 1)
    IN  IF try.ok
        THEN [raised |-> FALSE, metrics |-> try.metrics, tracker |-> try.tracker]
        ELSE [raised |-> FALSE,
              metrics |-> rubric_fallback(try.metrics),
              tracker |-> EndRequest(try.tracker, "llm_evaluation", 0, 0, FALSE, t + 1)]

\* the weighted sum, in thousandths
WeightedSum(m) ==
    30 * m.intent_match_score + 25 * m.budget_adherence_score
    + 20 * m.feasibility_score + 15 * m.completeness_score + 10 * m.coherence_score

\* the weighted score computed whatever the critical-error flag
calculate_overall_score_unguarded(m) ==
    LET q == WeightedSum(m) \div 100
        r == WeightedSum(m) % 100
    IN  IF r < 50 THEN {q} ELSE IF r > 50 THEN {q + 1} ELSE {q, q + 1}

\* TripEvaluator._calculate_overall_score: the values round(score, 1) may give.
\* The sum is computed in binary floating point, so a sum that lies exactly
\* half-way between two tenths is rounded to either of them.
calculate_overall_score(m) ==
    IF m.has_critical_errors THEN {0}
    ELSE LET q == WeightedSum(m) \div 100
             r == WeightedSum(m) % 100
         IN  IF r < 50 THEN {q} ELSE IF r > 50 THEN {q + 1} ELSE {q, q + 1}

\* the grades with every threshold excluded from the grade it opens
score_to_grade_exclusive(score) ==
    IF score > 90 THEN "A"
    ELSE IF score > 75 THEN "B"
    ELSE IF score > 60 THEN "C"
    ELSE IF score > 40 THEN "D"
    ELSE "F"

\* TripEvaluator._score_to_grade
score_to_grade(score) ==
    IF score >= 90 THEN "A"
    ELSE IF score >= 75 THEN "B"
    ELSE IF score >= 60 THEN "C"
    ELSE IF score >= 40 THEN "D"
    ELSE "F"

\* TripEvaluator._calculate_generation_cost: get_summary()['total_cost_usd'],
\* in ten-thousandths of a dollar; a sum exactly half-way rounds either way
calculate_generation_cost(ledger) ==
    LET total == SumSeq([k \in 1..Len(ledger) |-> ledger[k].cost_usd])
    IN  IF total % 100 = 50 THEN {total \div 100, total \div 100 + 1}
        ELSE {RoundHalfEven(total, 100)}

----------------------------------------------------------------------------
(* What evaluate may be given, and what the rubric call may answer *)

RubricPayload(kind, im, fe) ==
    [kind |-> kind, intent_match_score |-> im, feasibility_score |-> fe]

\* a score as the judge may write it: a number (in or out of 0..10), a numeric
\* string, a word, null, or not at all
ScoreValues ==
    {JNum(85), JNum(40), JNumStr(90), JNum(150), JNum(-20), JStr("good"), JNull, JAbsent}

RubricObjects == {RubricPayload("object", im, fe) : im \in ScoreValues, fe \in ScoreValues}

SampleRubric == RubricPayload("object", JNum(85), JNum(70))

RubricResponses ==
    {Answer(Plain, o) : o \in RubricObjects}
    \cup {Answer(w, SampleRubric) : w \in Wrappings \cup Unparseable}
    \cup {Answer(Plain, [SampleRubric EXCEPT !.kind = "nonobject"]),
          Answer(Plain, [SampleRubric EXCEPT !.kind = "malformed"]),
          Raises(SampleRubric)}

EvalIntent(budget) ==
    [TravelIntentDefaults EXCEPT !.destination = Some("Paris"),
                                 !.duration_days = Some(2),
                                 !.budget_usd = budget,
                                 !.original_query = "5 days in Paris",
                                 !.confidence_score = 90]

TripPlan(duration_days, daily_plans, cost) ==
    [destination |-> "Paris",
     duration_days |-> duration_days,
     daily_plans |-> daily_plans,
     total_estimated_cost |-> cost]

EvalRec(budget, duration_days, daily_plans, cost) ==
    TripRecommendation(EvalIntent(budget), TripPlan(duration_days, daily_plans, cost),
                       None, None, cost, 2, 570)

\* which of morning, afternoon, evening a sketchy day leaves empty
EmptyParts ==
    {<<TRUE, FALSE, FALSE>>, <<FALSE, TRUE, FALSE>>, <<FALSE, FALSE, TRUE>>,
     <<TRUE, TRUE, TRUE>>}

\* day sequences of length n: each day numbered by its position or one more,
\* each day complete or sketchy
DaySequences(n) ==
    {[k \in 1..n |->
        DayPlan(k + off[k],
                IF sketchy[k] /\ e[1] THEN "" ELSE "museum",
                IF sketchy[k] /\ e[2] THEN "" ELSE "walk",
                IF sketchy[k] /\ e[3] THEN "" ELSE "dinner")] :
        off \in [1..n -> {0, 1}], sketchy \in [1..n -> BOOLEAN], e \in EmptyParts}

\* stated budgets and total costs around every threshold of the budget check
Budgets == {None, Some(0), Some(-100), Some(10), Some(1000)}
Costs == {0, 10, 11, 12, 13, 15, 16, 20, 1000, 1001, 1100, 1200, 1201, 1500, 1501, 2000}

\* inputs of the heuristic checks: every plan shape at one budget, and every
\* budget and cost at a few plan shapes
HeuristicRecs ==
    {EvalRec(Some(1000), d, days, 700) :
        d \in 1..MaxDays, days \in UNION {DaySequences(n) : n \in 0..MaxDays}}
    \cup {EvalRec(b, 2, days, c) :
            b \in Budgets, c \in Costs,
            days \in {<<>>, <<GoodDay(1), GoodDay(2)>>}}

\* inputs of evaluate
EvalRecs ==
    {EvalRec(b, 2, days, c) :
        b \in {None, Some(1000)}, c \in {700, 1100, 1300, 2000},
        days \in {<<>>,
                  <<GoodDay(1), GoodDay(2)>>,
                  <<GoodDay(1), GoodDay(2), GoodDay(4)>>,
                  <<GoodDay(2), DayPlan(3, "", "walk", "dinner")>>}}

\* ledgers evaluate may find: empty, or holding the records of one request
Ledgers ==
    {<<>>,
     <<RequestMetrics("intent_extraction", Usage.input_tokens, Usage.output_tokens,
                      TRUE, Some(1), 2),
       RequestMetrics("trip_planning", 0, 0, FALSE, Some(2), 3)>>,
     <<RequestMetrics("intent_extraction", 30, 4, TRUE, Some(1), 2)>>}

----------------------------------------------------------------------------
(* evaluate, one action per stage *)

PipeIdle ==
    /\ pc = "idle"
    /\ request = [user_query |-> "", include_flights |-> FALSE, use_real_apis |-> FALSE]
    /\ intent = None
    /\ validation = None
    /\ trip_plan = None
    /\ outbound_flights = None
    /\ return_flights = None
    /\ total_cost = 0
    /\ recommendation = None
    /\ intentResp = None
    /\ planResp = None
    /\ flightCalls = 0

EvalInit ==
    /\ PipeIdle
    /\ epc = "heuristics"
    /\ rec \in {Some(r) : r \in EvalRecs}
    /\ metrics = None
    /\ rubricResp = None
    /\ requests \in Ledgers
    /\ start_time = None
    /\ now = 4
    /\ OtherIdle
    /\ FlightApiInit

\* the construction of the metrics and stage 1, _run_heuristic_checks
RunHeuristics ==
    /\ epc = "heuristics"
    /\ \E cost \in calculate_generation_cost(requests) :
        metrics' = Some(run_heuristic_checks(
                            rec[1], EvaluationMetrics(rec[1].generation_time_ms, cost)))
    /\ epc' = "rubric"
    /\ UNCHANGED <<rec, rubricResp, pipeVars, otherVars, trackerVars, apiVars>>

\* stage 2, _run_llm_evaluation, when no critical error was found
RunRubric ==
    /\ epc = "rubric"
    /\ ~metrics[1].has_critical_errors
    /\ \E resp \in RubricResponses :
        LET r == run_llm_evaluation(metrics[1], resp, Tracker, now)
        IN  /\ rubricResp' = Some(resp)
            /\ metrics' = Some(r.metrics)
            /\ requests' = r.tracker.requests
            /\ start_time' = r.tracker.start_time
            /\ epc' = IF r.raised THEN "raised" ELSE "score"
    /\ now' = now + 1
    /\ UNCHANGED <<rec, pipeVars, otherVars, apiVars>>

\* stage 2 skipped
SkipRubric ==
    /\ epc = "rubric"
    /\ metrics[1].has_critical_errors
    /\ epc' = "score"
    /\ UNCHANGED <<rec, metrics, rubricResp, pipeVars, otherVars, trackerVars, apiVars>>

\* stage 3, _calculate_overall_score and _score_to_grade; the metrics are returned
ScoreAndGrade ==
    /\ epc = "score"
    /\ \E score \in calculate_overall_score(metrics[1]) :
        metrics' = Some([metrics[1] EXCEPT !.overall_score = score,
                                           !.grade = score_to_grade(score)])
    /\ epc' = "done"
    /\ UNCHANGED <<rec, rubricResp, pipeVars, otherVars, trackerVars, apiVars>>

EvalNext ==
    \/ RunHeuristics
    \/ RunRubric
    \/ SkipRubric
    \/ ScoreAndGrade

EvalSpec == EvalInit /\ [][EvalNext]_vars

\* _run_heuristic_checks alone, over every plan shape and every budget
HeurInit ==
    /\ PipeIdle
    /\ epc = "heuristics"
    /\ rec \in {Some(r) : r \in HeuristicRecs}
    /\ metrics = None
    /\ rubricResp = None
    /\ requests = <<>>
    /\ start_time = None
    /\ now = 4
    /\ OtherIdle
    /\ FlightApiInit

HeurNext == RunHeuristics

HeurSpec == HeurInit /\ [][HeurNext]_vars

----------------------------------------------------------------------------
(* _get_airport_code *)

\* places a location may name: every key of the table, and a few names that
\* are not in it, hold a key inside a word, or are capitalised
Places ==
    {airport_map[k].key : k \in 1..Len(airport_map)}
    \cup {<<"r", "o", "m", "e">>, <<"P", "a", "r", "i", "s">>, <<"T", "O", "K", "Y", "O">>, <<"k", "a", "b", "a", "l", "i", "s">>}

\* one place, or two separated by ", "
Locations ==
    Places \cup {a \o <<",", " ">> \o b : a \in Places, b \in Places}

AirportInit ==
    /\ PipeIdle
    /\ FlightApiInit
    /\ ExtraIdle
    /\ EvalIdle
    /\ ReportIdle
    /\ BatchIdle
    /\ requests = <<>>
    /\ start_time = None
    /\ now = 1
    /\ location \in {Some(l) : l \in Locations}
    /\ airport_code = None

GetAirportCode ==
    /\ location # None
    /\ airport_code = None
    /\ airport_code' = Some(get_airport_code(location[1]))
    /\ UNCHANGED <<location, pipeVars, evalVars, trackerVars, reportVars, batchVars,
                   apiVars, extraVars>>

AirportNext == GetAirportCode

AirportSpec == AirportInit /\ [][AirportNext]_vars

----------------------------------------------------------------------------
(* search_flights called again and again on one AmadeusFlightAPI *)

\* seconds between one search and the next: within a granted lifetime, up to
\* the deadline of a two-minute token, up to the deadline of a default token
Elapsed == {1, 60, 1740}

\* the pricing service at each search: the ways the token request may fail,
\* and for each lifetime granted an offer request refused or answered
SearchOutcomes ==
    {PricingOutcome(auth, None, None, "none", "none", <<>>) :
        auth \in {"denied", "no token", "unreachable", "bad expiry"}}
    \cup {PricingOutcome("granted", e, None, "500", "object", <<>>) : e \in Lifetimes}
    \cup {PricingOutcome("granted", e, None, "200", "object",
                         <<[ok |-> TRUE, price |-> 300, airline |-> "AF"]>>) :
            e \in Lifetimes}

FlightInit ==
    /\ PipeIdle
    /\ EvalIdle
    /\ OtherIdle
    /\ FlightApiInit
    /\ requests = <<>>
    /\ start_time = None
    /\ now = 1

\* one call of search_flights, some time after the one before; the history
\* keeps the token fields before and after, the time, what the pricing service
\* did, the requests sent and the result
SearchFlights ==
    /\ Len(searches) < MaxSearches
    /\ \E d \in Elapsed, out \in SearchOutcomes :
        LET t == now + d
            before == FlightApi(access_token, token_expires_at)
            r == search_flights(before, t, "2026-03-15", None, out)
        IN  /\ now' = t
            /\ access_token' = r.api.access_token
            /\ token_expires_at' = r.api.token_expires_at
            /\ sent' = sent \o r.sent
            /\ searches' = Append(searches, [t |-> t, before |-> before, out |-> out,
                                             sent |-> r.sent, raised |-> r.raised,
                                             result |-> r.result, after |-> r.api])
    /\ UNCHANGED <<requests, start_time, pipeVars, evalVars, otherVars>>

FlightNext == SearchFlights

FlightSpec == FlightInit /\ [][FlightNext]_vars

----------------------------------------------------------------------------
(* The tracker's operations, called in any order *)

ClockLimit == 2 * MaxRequests + 1

\* what a caller may report to end_request
Reports ==
    {[input_tokens |-> Usage.input_tokens, output_tokens |-> Usage.output_tokens,
      success |-> TRUE],
     [input_tokens |-> 50, output_tokens |-> 0, success |-> TRUE],
     [input_tokens |-> 0, output_tokens |-> 0, success |-> FALSE]}

LedgerInit ==
    /\ PipeIdle
    /\ FlightApiInit
    /\ ExtraIdle
    /\ EvalIdle
    /\ BatchIdle
    /\ AirportIdle
    /\ ReportIdle
    /\ requests = <<>>
    /\ start_time = None
    /\ now = 1

TrackerStart ==
    /\ now < ClockLimit
    /\ start_time' = StartRequest(Tracker, now).start_time
    /\ now' = now + 1
    /\ UNCHANGED <<requests, pipeVars, evalVars, otherVars, apiVars>>

TrackerEnd ==
    /\ Len(requests) < MaxRequests
    /\ \E rp \in Reports :
        LET tr == EndRequest(Tracker, "intent_extraction", rp.input_tokens,
                             rp.output_tokens, rp.success, now)
        IN  /\ requests' = tr.requests
            /\ start_time' = tr.start_time
    /\ now' = now + 1
    /\ UNCHANGED <<pipeVars, evalVars, otherVars, apiVars>>

GetSummary ==
    /\ \E sm \in get_summary(requests) : summary' = Some(sm)
    /\ UNCHANGED <<exported, pipeVars, evalVars, trackerVars, batchVars, airportVars,
                   apiVars, extraVars>>

ExportJson ==
    /\ \E f \in export_json(requests) : exported' = Some(f)
    /\ UNCHANGED <<summary, pipeVars, evalVars, trackerVars, batchVars, airportVars,
                   apiVars, extraVars>>

LedgerNext ==
    \/ TrackerStart
    \/ TrackerEnd
    \/ GetSummary
    \/ ExportJson

LedgerSpec == LedgerInit /\ [][LedgerNext]_vars

----------------------------------------------------------------------------
(* Two components timing their requests on the one shared tracker.  Each
   statement of end_request is a step of its own: the test of _start_time, its
   second read for the subtraction, the append, the reset. *)

Writer(operation) ==
    [pc |-> "idle", operation |-> operation, started_at |-> 0, measured_at |-> 0,
     latency |-> 0]

Operations == <<"intent_extraction", "llm_evaluation">>

ConcInit ==
    /\ PipeIdle
    /\ FlightApiInit
    /\ EvalIdle
    /\ ReportIdle
    /\ BatchIdle
    /\ AirportIdle
    /\ session_state = SessionState(None, None, "")
    /\ runs = <<>>
    /\ requests = <<>>
    /\ start_time = None
    /\ now = 1
    /\ writers = [w \in 1..Len(Operations) |-> Writer(Operations[w])]

ConcIdle == <<pipeVars, apiVars, evalVars, reportVars, batchVars, airportVars,
              session_state, runs>>

\* start_request: self._start_time = time.time()
WriterStart(w) ==
    /\ writers[w].pc = "idle"
    /\ start_time' = Some(now)
    /\ writers' = [writers EXCEPT ![w].pc = "started", ![w].started_at = now]
    /\ now' = now + 1
    /\ UNCHANGED <<requests, ConcIdle>>

\* end_request: the test "if self._start_time"
WriterTest(w) ==
    /\ writers[w].pc = "started"
    /\ writers' = [writers EXCEPT ![w].pc = IF start_time # None THEN "measure"
                                            ELSE "append",
                                  ![w].measured_at = now]
    /\ now' = now + 1
    /\ UNCHANGED <<requests, start_time, ConcIdle>>

\* end_request: (time.time() - self._start_time) * 1000, which raises a
\* TypeError when _start_time has become None since the test
WriterMeasure(w) ==
    /\ writers[w].pc = "measure"
    /\ writers' = IF start_time = None
                  THEN [writers EXCEPT ![w].pc = "raised"]
                  ELSE [writers EXCEPT ![w].pc = "append",
                                       ![w].measured_at = now,
                                       ![w].latency = now - start_time[1]]
    /\ now' = now + 1
    /\ UNCHANGED <<requests, start_time, ConcIdle>>

\* end_request: self.requests.append(metrics)
WriterAppend(w) ==
    /\ writers[w].pc = "append"
    /\ requests' = Append(requests,
                          [RequestMetrics(writers[w].operation, Usage.input_tokens,
                                          Usage.output_tokens, TRUE, None, now)
                             EXCEPT !.latency_ms = writers[w].latency])
    /\ writers' = [writers EXCEPT ![w].pc = "reset"]
    /\ now' = now + 1
    /\ UNCHANGED <<start_time, ConcIdle>>

\* end_request: self._start_time = None
WriterReset(w) ==
    /\ writers[w].pc = "reset"
    /\ start_time' = None
    /\ writers' = [writers EXCEPT ![w].pc = "done"]
    /\ now' = now + 1
    /\ UNCHANGED <<requests, ConcIdle>>

ConcNext ==
    \E w \in 1..Len(Operations) :
        \/ WriterStart(w)
        \/ WriterTest(w)
        \/ WriterMeasure(w)
        \/ WriterAppend(w)
        \/ WriterReset(w)

ConcSpec == ConcInit /\ [][ConcNext]_vars

----------------------------------------------------------------------------
(* The web page: src/app.py.  Each press of a button is one run of the script. *)

SessionInit ==
    /\ PipeIdle
    /\ FlightApiInit
    /\ EvalIdle
    /\ ReportIdle
    /\ BatchIdle
    /\ AirportIdle
    /\ writers = <<>>
    /\ requests = <<>>
    /\ start_time = None
    /\ now = 1
    /\ session_state = SessionState(None, None, "")
    /\ runs = <<>>

SessionIdle == <<pipeVars, apiVars, evalVars, trackerVars, reportVars, batchVars,
                 airportVars, writers>>

\* the user edits the query box
TypeQuery ==
    /\ \E text \in Queries \cup {""} :
        /\ text # session_state.query_input
        /\ session_state' = [session_state EXCEPT !.query_input = text]
    /\ UNCHANGED <<runs, SessionIdle>>

\* "Plan My Trip" storing the recommendation and leaving the evaluation
PlanSucceeds_keeping ==
    /\ Len(runs) < MaxRuns
    /\ session_state.query_input # ""
    /\ session_state' =
          [session_state EXCEPT
              !.recommendation = Some([run |-> Len(runs) + 1,
                                       query |-> session_state.query_input])]
    /\ runs' = Append(runs, "planned")
    /\ UNCHANGED SessionIdle

\* "Plan My Trip" with process_query returning: the recommendation is stored
\* and the evaluation cleared.  The recommendation is named by the run that
\* made it.
PlanSucceeds ==
    /\ Len(runs) < MaxRuns
    /\ session_state.query_input # ""
    /\ session_state' =
          [session_state EXCEPT
              !.recommendation = Some([run |-> Len(runs) + 1,
                                       query |-> session_state.query_input]),
              !.evaluation = None]
    /\ runs' = Append(runs, "planned")
    /\ UNCHANGED SessionIdle

\* "Plan My Trip" with process_query raising, or with an empty query box
PlanFails ==
    /\ Len(runs) < MaxRuns
    /\ runs' = Append(runs, IF session_state.query_input = "" THEN "plan ignored"
                            ELSE "plan failed")
    /\ UNCHANGED <<session_state, SessionIdle>>

\* "Evaluate", shown only when a recommendation is stored
Evaluate ==
    /\ Len(runs) < MaxRuns
    /\ session_state.recommendation # None
    /\ \E grade \in {"A", "F"} :
        session_state' =
            [session_state EXCEPT
                !.evaluation = Some([of |-> session_state.recommendation[1],
                                     grade |-> grade])]
    /\ runs' = Append(runs, "evaluated")
    /\ UNCHANGED SessionIdle

\* "Evaluate" with evaluate raising
EvaluateFails ==
    /\ Len(runs) < MaxRuns
    /\ session_state.recommendation # None
    /\ runs' = Append(runs, "evaluation failed")
    /\ UNCHANGED <<session_state, SessionIdle>>

\* "New Trip", shown only when a recommendation is stored
NewTrip ==
    /\ Len(runs) < MaxRuns
    /\ session_state.recommendation # None
    /\ session_state' = [session_state EXCEPT !.recommendation = None,
                                              !.evaluation = None]
    /\ runs' = Append(runs, "new trip")
    /\ UNCHANGED SessionIdle

SessionNext ==
    \/ TypeQuery
    \/ PlanSucceeds
    \/ PlanFails
    \/ Evaluate
    \/ EvaluateFails
    \/ NewTrip

SessionSpec == SessionInit /\ [][SessionNext]_vars

----------------------------------------------------------------------------
(* batch_evaluate *)

\* TripEvaluator.evaluate as one call, entered at time t with the tracker tr,
\* resp being what the text service answers if the rubric stage asks it: the
\* set of possible [raised, metrics, tracker]
evaluate(r, resp, tr, t) ==
    UNION {
        LET m1 == run_heuristic_checks(r, EvaluationMetrics(r.generation_time_ms, cost))
            judged == IF m1.has_critical_errors
                      THEN [raised |-> FALSE, metrics |-> m1, tracker |-> tr]
                      ELSE run_llm_evaluation(m1, resp, tr, t)
        IN  IF judged.raised THEN {judged}
            ELSE {[raised |-> FALSE,
                   metrics |-> [judged.metrics EXCEPT !.overall_score = score,
                                                      !.grade = score_to_grade(score)],
                   tracker |-> judged.tracker] :
                     score \in calculate_overall_score(judged.metrics)} :
        cost \in calculate_generation_cost(tr.requests)}

\* grade_distribution: the grades that occur, each with its count
GradeDistribution(rs) ==
    [g \in {rs[k].grade : k \in 1..Len(rs)} |->
        Cardinality({k \in 1..Len(rs) : rs[k].grade = g})]

\* the aggregation at the end of batch_evaluate, for a non-empty list: the
\* possible records.  average_score is in hundredths, average_latency_ms in
\* hundredths of the unit of latency_ms, total_cost_usd in ten-thousandths of a
\* dollar.
batch_aggregate(rs) ==
    LET n == Len(rs)
        scores == SumSeq([k \in 1..n |-> rs[k].overall_score])
        latencies == SumSeq([k \in 1..n |-> rs[k].latency_ms])
        costs == SumSeq([k \in 1..n |-> rs[k].cost_usd])
    IN  {[total_evaluated |-> n,
          average_score |-> a,
          average_latency_ms |-> l,
          total_cost_usd |-> costs,
          grade_distribution |-> GradeDistribution(rs),
          all_metrics |-> rs] :
            a \in Nearest(10 * scores, n), l \in Nearest(100 * latencies, n)}

\* the recommendations of a batch: a good plan, a plan without days, a plan
\* over budget
BatchRecs ==
    {EvalRec(Some(1000), 2, <<GoodDay(1), GoodDay(2)>>, 700),
     EvalRec(Some(1000), 2, <<>>, 700),
     EvalRec(Some(1000), 2, <<GoodDay(1), GoodDay(2)>>, 1300)}

BatchRubricResponses ==
    {Answer(Plain, SampleRubric),
     Answer(Plain, RubricPayload("object", JNum(40), JNum(40))),
     Raises(SampleRubric)}

\* the ledger when batch_evaluate is called: empty, or holding the two records
\* of every query processed before (the batch run of main.py processes the
\* queries first)
QueryRecords ==
    <<RequestMetrics("intent_extraction", Usage.input_tokens, Usage.output_tokens,
                     TRUE, Some(1), 2),
      RequestMetrics("trip_planning", Usage.input_tokens, Usage.output_tokens,
                     TRUE, Some(2), 3)>>

BatchLedgers == {<<>>, QueryRecords, QueryRecords \o QueryRecords}

BatchInit ==
    /\ PipeIdle
    /\ FlightApiInit
    /\ ExtraIdle
    /\ EvalIdle
    /\ ReportIdle
    /\ AirportIdle
    /\ bpc = "loop"
    /\ recommendations \in SeqsUpTo(BatchRecs, MaxBatch)
    /\ results = <<>>
    /\ aggregate = None
    /\ requests \in BatchLedgers
    /\ start_time = None
    /\ now = 4

\* one turn of the loop: evaluate(rec) and results.append(metrics)
BatchEvaluateItem ==
    /\ bpc = "loop"
    /\ Len(results) < Len(recommendations)
    /\ \E resp \in BatchRubricResponses :
        \E e \in evaluate(recommendations[Len(results) + 1], resp, Tracker, now) :
            /\ results' = IF e.raised THEN results ELSE Append(results, e.metrics)
            /\ bpc' = IF e.raised THEN "raised" ELSE "loop"
            /\ requests' = e.tracker.requests
            /\ start_time' = e.tracker.start_time
    /\ now' = now + 1
    /\ UNCHANGED <<recommendations, aggregate, pipeVars, evalVars, reportVars,
                   airportVars,
                   apiVars, extraVars>>

\* after the loop: the averages divide by len(results), and the record is returned
BatchAggregate ==
    /\ bpc = "loop"
    /\ Len(results) = Len(recommendations)
    /\ IF Len(results) = 0
       THEN /\ bpc' = "raised"         \* ZeroDivisionError
            /\ aggregate' = None
       ELSE /\ bpc' = "done"
            /\ \E a \in batch_aggregate(results) : aggregate' = Some(a)
    /\ UNCHANGED <<recommendations, results, pipeVars, evalVars, trackerVars,
                   reportVars, airportVars,
                   apiVars, extraVars>>

BatchNext ==
    \/ BatchEvaluateItem
    \/ BatchAggregate

BatchSpec == BatchInit /\ [][BatchNext]_vars

----------------------------------------------------------------------------
(* Properties of the evaluator *)

RecordsOf(operation) == SelectSeq(requests, LAMBDA m : m.operation = operation)

EvalReturned == epc = "done"
HeuristicsRan == epc # "heuristics"
M == metrics[1]
Days == rec[1].trip_plan.daily_plans

\* C1: whenever the metrics returned by evaluate have has_critical_errors set,
\* overall_score is exactly 0 and grade is exactly "F", whatever the sub-scores.
C1_CriticalForcesZeroF ==
    (EvalReturned /\ M.has_critical_errors) => (M.overall_score = 0 /\ M.grade = "F")

\* a critical evaluation returned although two sub-scores are at their maximum
C1_Witness ==
    /\ EvalReturned
    /\ M.has_critical_errors
    /\ M.budget_adherence_score = 100
    /\ M.coherence_score = 100

\* C4: evaluate never raises and always returns a complete EvaluationMetrics,
\* whatever the text service does; returned metrics with has_critical_errors
\* set carry at least one error message.
C4_EvaluateAlwaysReturns ==
    /\ epc # "raised"
    /\ ~EvalReturned => ENABLED EvalNext
    /\ EvalReturned =>
        /\ metrics # None
        /\ DOMAIN M = DOMAIN EvaluationMetrics(0, 0)
        /\ M.grade \in {"A", "B", "C", "D", "F"}
        /\ M.has_critical_errors => Len(M.error_messages) >= 1

\* evaluate returned although the text service raised
C4_Witness ==
    /\ EvalReturned
    /\ rubricResp # None
    /\ rubricResp[1].raises

\* how a rubric answer can fail
RubricRaised(resp) == resp.raises
RubricNotJson(resp) == resp.payload.kind = "malformed" \/ resp.text \in Unparseable
RubricNotObject(resp) == resp.payload.kind = "nonobject"
Missing(j) == j.t = "absent"
NotNumeric(j) == j.t \in {"str", "null", "bad"}
RubricStageRan == rubricResp # None /\ epc \in {"score", "done"}
BothSix == M.intent_match_score = 60 /\ M.feasibility_score = 60

\* C5 as stated: a failure of the rubric stage, a score that is missing or not
\* numeric included, leaves both scores at 6.0.
C5_AsStated ==
    RubricStageRan =>
        LET resp == rubricResp[1]
            im == resp.payload.intent_match_score
            fe == resp.payload.feasibility_score
        IN  (\/ RubricRaised(resp)
             \/ RubricNotJson(resp)
             \/ RubricNotObject(resp)
             \/ Missing(im) \/ NotNumeric(im)
             \/ Missing(fe) \/ NotNumeric(fe)) => BothSix

\* C5, amended: when the text service raises, the response is not JSON, the
\* JSON is not an object, or a score is present but not convertible to a number,
\* both scores are 6.0, even if the other one had been read; a score that is
\* missing from the object is no failure: it is read as 7.0 and the other score
\* is kept.
C5_RubricFallback ==
    RubricStageRan =>
        LET resp == rubricResp[1]
            im == resp.payload.intent_match_score
            fe == resp.payload.feasibility_score
            failed == \/ RubricRaised(resp)
                      \/ RubricNotJson(resp)
                      \/ RubricNotObject(resp)
                      \/ NotNumeric(im)
                      \/ NotNumeric(fe)
        IN  /\ failed => BothSix
            /\ ~failed =>
                /\ M.intent_match_score = IF Missing(im) THEN 70 ELSE im.n
                /\ M.feasibility_score = IF Missing(fe) THEN 70 ELSE fe.n

\* intent_match_score was readable, feasibility_score was not: both are 6.0
C5_Witness ==
    /\ RubricStageRan
    /\ ~RubricRaised(rubricResp[1])
    /\ rubricResp[1].text = Plain
    /\ rubricResp[1].payload.kind = "object"
    /\ rubricResp[1].payload.intent_match_score = JNum(85)
    /\ NotNumeric(rubricResp[1].payload.feasibility_score)
    /\ BothSix

\* C8: completeness_score is 0 iff the day sequence is empty, and exactly then
\* has_critical_errors is set; 5 iff it is non-empty and its length differs from
\* the plan's duration_days; 10 otherwise.
C8_Completeness ==
    HeuristicsRan =>
        LET stated == rec[1].trip_plan.duration_days
        IN  /\ M.completeness_score = 0 <=> Days = <<>>
            /\ M.has_critical_errors <=> Days = <<>>
            /\ M.completeness_score = 50 <=> (Days # <<>> /\ Len(Days) # stated)
            /\ M.completeness_score = 100 <=> (Days # <<>> /\ Len(Days) = stated)
            /\ M.completeness_score \in {0, 50, 100}

\* more days than stated: 5
C8_Witness ==
    /\ HeuristicsRan
    /\ Len(Days) > rec[1].trip_plan.duration_days
    /\ M.completeness_score = 50

HasMessage(kind) == \E k \in 1..Len(M.error_messages) : M.error_messages[k].kind = kind
CountMessages(kind) ==
    Cardinality({k \in 1..Len(M.error_messages) : M.error_messages[k].kind = kind})

\* C9: with a budget > 0 the budget score is 10 for ratio <= 1.0, 7 for
\* 1.0 < ratio <= 1.2, 4 for 1.2 < ratio <= 1.5 and 2 for ratio > 1.5, where
\* ratio = total_cost_estimate / budget; an over-budget message is recorded
\* exactly when ratio > 1.5; with no budget, or one <= 0, the score is 8.
C9_BudgetBands ==
    HeuristicsRan =>
        LET budget == rec[1].intent.budget_usd
            cost == rec[1].total_cost_estimate
            stated == budget # None /\ budget[1] > 0
            b == budget[1]
            over == stated /\ 2 * cost > 3 * b
        IN  /\ (stated /\ cost <= b) => M.budget_adherence_score = 100
            /\ (stated /\ cost > b /\ 5 * cost <= 6 * b) => M.budget_adherence_score = 70
            /\ (stated /\ 5 * cost > 6 * b /\ 2 * cost <= 3 * b)
                  => M.budget_adherence_score = 40
            /\ over => M.budget_adherence_score = 20
            /\ ~stated => M.budget_adherence_score = 80
            /\ HasMessage("Budget exceeded: ${a} vs ${b}") <=> over
            /\ (rec[1].intent.budget_usd = Some(1000) /\ cost = 1100)
                  => M.budget_adherence_score = 70

\* the ratio is exactly 1.2: 7
C9_Witness ==
    /\ HeuristicsRan
    /\ rec[1].intent.budget_usd = Some(1000)
    /\ rec[1].total_cost_estimate = 1200
    /\ M.budget_adherence_score = 70

Misnumbered == {k \in 1..Len(Days) : Days[k].day # k}
Sketchy ==
    {k \in 1..Len(Days) :
        Days[k].morning = "" \/ Days[k].afternoon = "" \/ Days[k].evening = ""}

\* C10: coherence_score = max(0, 10 - 2m - e), m the number of days whose index
\* differs from their position and e the number of days with an empty morning,
\* afternoon or evening; exactly m day-numbering messages are recorded, and
\* none for a missing day part.
C10_Coherence ==
    HeuristicsRan =>
        LET m == Cardinality(Misnumbered)
            e == Cardinality(Sketchy)
            raw == 100 - 20 * m - 10 * e
        IN  /\ M.coherence_score = IF raw > 0 THEN raw ELSE 0
            /\ CountMessages("Day numbering issue at day {a}") = m
            /\ \A k \in 1..Len(M.error_messages) :
                  M.error_messages[k].kind \in
                      {"No daily plans generated",
                       "Plan has {a} days but should have {b}",
                       "Budget exceeded: ${a} vs ${b}",
                       "Day numbering issue at day {a}"}
            /\ Len(M.error_messages)
                  = m + (IF M.completeness_score # 100 THEN 1 ELSE 0)
                      + (IF M.budget_adherence_score = 20 THEN 1 ELSE 0)
            /\ ([k \in 1..Len(Days) |-> Days[k].day] = <<1, 2, 4>> /\ e = 0)
                  => (M.coherence_score = 80 /\ m = 1)

\* indices 1, 2, 4 with every day part present: 8 and one numbering message
C10_Witness ==
    /\ HeuristicsRan
    /\ [k \in 1..Len(Days) |-> Days[k].day] = <<1, 2, 4>>
    /\ Sketchy = {}
    /\ M.coherence_score = 80
    /\ CountMessages("Day numbering issue at day {a}") = 1

\* C11: when no critical error is set, overall_score is 0.30 intent_match
\* + 0.25 budget_adherence + 0.20 feasibility + 0.15 completeness
\* + 0.10 coherence rounded to one decimal, and the grade is A iff the score is
\* >= 9.0, B iff 7.5 <= score < 9.0, C iff 6.0 <= score < 7.5, D iff
\* 4.0 <= score < 6.0 and F iff score < 4.0.
C11_WeightedScoreAndGrade ==
    (EvalReturned /\ ~M.has_critical_errors) =>
        LET thousandths == 30 * M.intent_match_score + 25 * M.budget_adherence_score
                           + 20 * M.feasibility_score + 15 * M.completeness_score
                           + 10 * M.coherence_score
            score == M.overall_score
        IN  /\ 100 * score - thousandths <= 50
            /\ thousandths - 100 * score <= 50
            /\ M.grade = "A" <=> score >= 90
            /\ M.grade = "B" <=> (75 <= score /\ score < 90)
            /\ M.grade = "C" <=> (60 <= score /\ score < 75)
            /\ M.grade = "D" <=> (40 <= score /\ score < 60)
            /\ M.grade = "F" <=> score < 40

\* a score exactly on a threshold takes the grade the threshold opens
C11_Witness ==
    /\ EvalReturned
    /\ ~M.has_critical_errors
    /\ M.overall_score \in {90, 75, 60, 40}
    /\ M.grade = score_to_grade(M.overall_score)
    /\ M.intent_match_score # M.feasibility_score

\* C20: every policy violation the evaluator finds - a day count that
\* differs from the stated duration, a total cost above the stated budget
\* (ratio > 1.0), a day index that is not its position - is surfaced both as
\* a score penalty (the sub-score is below 10) and as at least one entry of
\* error_messages, and never as an exception.
C20_ViolationsPenalisedAndReported ==
    /\ epc # "raised"
    /\ HeuristicsRan =>
        LET budget == rec[1].intent.budget_usd
            overBudget == /\ budget # None
                          /\ budget[1] > 0
                          /\ rec[1].total_cost_estimate > budget[1]
        IN  /\ Len(Days) # rec[1].trip_plan.duration_days =>
                  /\ M.completeness_score < 100
                  /\ \/ HasMessage("No daily plans generated")
                     \/ HasMessage("Plan has {a} days but should have {b}")
            /\ overBudget =>
                  /\ M.budget_adherence_score < 100
                  /\ HasMessage("Budget exceeded: ${a} vs ${b}")
            /\ Misnumbered # {} =>
                  /\ M.coherence_score < 100
                  /\ HasMessage("Day numbering issue at day {a}")

\* C24: within one evaluate the rubric stage runs exactly when the heuristic
\* stage did not set the critical-error flag.  With the flag set the text
\* service is not called, no "llm_evaluation" record is appended and
\* intent_match_score and feasibility_score stay 0; without it exactly one
\* "llm_evaluation" record is appended, after the heuristic checks have run and
\* before the overall score is computed.
C24_RubricIffNotCritical ==
    LET recs == RecordsOf("llm_evaluation")
    IN  /\ epc # "raised"
        /\ epc \in {"heuristics", "rubric"} => (rubricResp = None /\ Len(recs) = 0)
        /\ epc \in {"score", "done"} =>
               IF M.has_critical_errors
               THEN /\ rubricResp = None
                    /\ Len(recs) = 0
                    /\ M.intent_match_score = 0
                    /\ M.feasibility_score = 0
               ELSE /\ rubricResp # None
                    /\ Len(recs) = 1
                    /\ requests[Len(requests)] = recs[1]

\* the rubric stage answered with something unusable: one failure record
C24_Witness ==
    /\ epc = "score"
    /\ ~M.has_critical_errors
    /\ rubricResp # None
    /\ rubricResp[1].raises
    /\ Len(RecordsOf("llm_evaluation")) = 1
    /\ ~RecordsOf("llm_evaluation")[1].success

\* the critical flag was set and the rubric stage skipped
C24_WitnessSkipped ==
    /\ epc = "done"
    /\ M.has_critical_errors
    /\ rubricResp = None
    /\ Len(requests) > 0

InRange(score) == 0 <= score /\ score <= 100

\* C21: in every EvaluationMetrics returned by evaluate, each of the five
\* sub-scores and the overall score lies in the range 0 to 10, whatever the
\* recommendation and whatever the rubric call answered.
C21_ScoresInRange ==
    EvalReturned =>
        /\ InRange(M.intent_match_score)
        /\ InRange(M.budget_adherence_score)
        /\ InRange(M.feasibility_score)
        /\ InRange(M.completeness_score)
        /\ InRange(M.coherence_score)
        /\ InRange(M.overall_score)

----------------------------------------------------------------------------
(* Properties of the pipeline *)

ExtractReturned == intentResp # None
NotJson(resp) == resp.payload.kind = "malformed" \/ resp.text \in Unparseable
NotObject(resp) == resp.payload.kind = "nonobject"

\* a field of a JSON object that the TravelIntent schema rejects
RejectedStr(j) == j.t \notin {"absent", "null", "str"}
RejectedOptNum(j) == j.t \notin {"absent", "null", "num", "numstr"}
RejectedNum(j) == j.t \notin {"absent", "num", "numstr"}
FailsIntentSchema(o) ==
    \/ RejectedStr(o.destination) \/ RejectedStr(o.start_date) \/ RejectedStr(o.end_date)
    \/ RejectedOptNum(o.duration_days) \/ RejectedOptNum(o.budget_usd)
    \/ RejectedNum(o.num_travelers) \/ RejectedNum(o.confidence_score)

\* C2: extract always returns a TravelIntent and never raises; when the text
\* service raises, or answers text that is not JSON, JSON that is not an object,
\* or an object the TravelIntent schema rejects, the intent returned has the
\* query as original_query, confidence_score 0.1 and every other field at its
\* default.
C2_ExtractFailsSoft ==
    /\ pc = "raised" => planResp # None
    /\ ExtractReturned =>
        /\ intent # None
        /\ DOMAIN intent[1] = DOMAIN TravelIntentDefaults
        /\ intent[1].original_query = request.user_query
        /\ LET resp == intentResp[1]
           IN  (\/ resp.raises
                \/ NotJson(resp)
                \/ NotObject(resp)
                \/ FailsIntentSchema(resp.payload))
               => intent[1] = [destination |-> None,
                               start_date |-> None,
                               end_date |-> None,
                               duration_days |-> None,
                               num_travelers |-> 1,
                               budget_usd |-> None,
                               flight_class |-> "economy",
                               original_query |-> request.user_query,
                               confidence_score |-> 10]

\* an object the schema rejects was answered, and the fallback intent returned
C2_Witness ==
    /\ ExtractReturned
    /\ ~intentResp[1].raises
    /\ intentResp[1].text = Plain
    /\ intentResp[1].payload.kind = "object"
    /\ FailsIntentSchema(intentResp[1].payload)
    /\ intent # None
    /\ intent[1].confidence_score = 10
    /\ intent[1].original_query = request.user_query

\* C22: every call of extract appends exactly one "intent_extraction" record:
\* success TRUE with the token counts the service reported when the intent
\* parsed from the answer is returned, success FALSE with zero tokens when the
\* fallback intent is returned; an answer that is valid JSON but fails the
\* TravelIntent schema gives one record, not two.
C22_OneRecordPerExtract ==
    ExtractReturned =>
        LET resp == intentResp[1]
            recs == RecordsOf("intent_extraction")
            \* the fallback intent: confidence 0.1, which no parsed answer carries
            fellBack == intent[1].confidence_score = 10
        IN  /\ Len(recs) = 1
            /\ ~fellBack =>
                   /\ recs[1].success
                   /\ recs[1].input_tokens = resp.input_tokens
                   /\ recs[1].output_tokens = resp.output_tokens
            /\ fellBack =>
                   /\ ~recs[1].success
                   /\ recs[1].input_tokens = 0
                   /\ recs[1].output_tokens = 0

PlanCalled == planResp # None
FailsPlanSchema(o) ==
    \/ o.destination.t # "str"
    \/ o.duration_days.t \notin {"num", "numstr"}
    \/ o.daily_plans.t # "list"
    \/ o.total_estimated_cost.t \notin {"num", "numstr"}
PlanFailed(resp) ==
    resp.raises \/ NotJson(resp) \/ NotObject(resp) \/ FailsPlanSchema(resp.payload)

\* C23: every call of plan_trip appends exactly one "trip_planning" record:
\* success TRUE when a TripPlan is returned, success FALSE with zero tokens when
\* the call raises; a call that raises leaves no success TRUE record.
C23_OneRecordPerPlan ==
    PlanCalled =>
        LET recs == RecordsOf("trip_planning")
        IN  /\ Len(recs) = 1
            /\ trip_plan # None => recs[1].success
            /\ trip_plan = None =>
                   /\ pc = "raised"
                   /\ ~recs[1].success
                   /\ recs[1].input_tokens = 0
                   /\ recs[1].output_tokens = 0
                   /\ \A k \in 1..Len(recs) : ~recs[k].success

\* C3: when plan generation fails (the text service raises, or its answer does
\* not parse into a TripPlan), process_query propagates the exception: nothing
\* is returned, no plan is synthesized, no later stage runs and the flight API
\* is never called.
C3_PlanFailurePropagates ==
    (PlanCalled /\ PlanFailed(planResp[1])) =>
        /\ pc = "raised"
        /\ trip_plan = None
        /\ recommendation = None
        /\ outbound_flights = None
        /\ flightCalls = 0
        /\ ~ENABLED Next

\* the plan failed for a request that would have searched flights
C3_Witness ==
    /\ pc = "raised"
    /\ PlanCalled
    /\ ~planResp[1].raises
    /\ FailsPlanSchema(planResp[1].payload)
    /\ WantsFlightSearch(request.include_flights, intent[1])

Returned == recommendation # None
R == recommendation[1]
OfferPrices ==
    IF R.outbound_flights = None THEN {}
    ELSE {R.outbound_flights[1].offers[k].price_usd :
            k \in 1..Len(R.outbound_flights[1].offers)}
HasEndDate == R.intent.end_date \notin {None, Some("")}

\* C6: total_cost_estimate is the plan's total_estimated_cost plus, only when a
\* flight search returned at least one offer, (minimum offer price) x
\* num_travelers x (2 if the intent has an end date, else 1); without
\* include_flights, without a search, or with no offer, it is the plan's
\* total_estimated_cost exactly.
C6_TotalCost ==
    Returned =>
        /\ OfferPrices # {} =>
             \E p \in OfferPrices :
                /\ \A q \in OfferPrices : p <= q
                /\ R.total_cost_estimate
                     = R.trip_plan.total_estimated_cost
                       + p * R.intent.num_travelers * (IF HasEndDate THEN 2 ELSE 1)
        /\ (~request.include_flights \/ flightCalls = 0 \/ OfferPrices = {})
              => R.total_cost_estimate = R.trip_plan.total_estimated_cost
        /\ ~request.include_flights => flightCalls = 0
        /\ flightCalls = 0 <=> R.outbound_flights = None

\* a round trip for several travelers, the cheapest offer not being the first
C6_Witness ==
    /\ Returned
    /\ R.outbound_flights # None
    /\ Len(R.outbound_flights[1].offers) >= 2
    /\ R.outbound_flights[1].offers[1].price_usd > R.outbound_flights[1].offers[2].price_usd
    /\ HasEndDate
    /\ R.intent.num_travelers > 1
    /\ R.total_cost_estimate > R.trip_plan.total_estimated_cost

\* the terms of the confidence, in hundredths
IntentTerm == R.intent.confidence_score
RequestedDays ==
    IF R.intent.duration_days = None \/ R.intent.duration_days = Some(0)
    THEN 1 ELSE R.intent.duration_days[1]
PlanTerm ==
    IF R.trip_plan.daily_plans = <<>> THEN 0
    ELSE IF Len(R.trip_plan.daily_plans) < RequestedDays THEN 70 ELSE 100
FlightTerm ==
    IF /\ R.outbound_flights # None
       /\ R.outbound_flights[1].search_success
       /\ R.outbound_flights[1].offers # <<>>
    THEN 100 ELSE 50

\* C7 as stated: the confidence is the mean of the intent confidence, the plan
\* score and, whenever include_flights is true, the flight term.
C7_AsStated ==
    Returned =>
        IF request.include_flights
        THEN 3 * R.confidence_score = 6 * (IntentTerm + PlanTerm + FlightTerm)
        ELSE 2 * R.confidence_score = 6 * (IntentTerm + PlanTerm)

\* C7, amended: the confidence is the mean of the intent confidence, the plan
\* score and, whenever a flight search was performed (include_flights true and
\* the intent has both a destination and a start date), the flight term; when
\* no search was performed, requested or not, the mean is over the first two
\* terms only.
C7_Confidence ==
    Returned =>
        /\ flightCalls > 0 <=>
              (/\ request.include_flights
               /\ R.intent.destination \notin {None, Some("")}
               /\ R.intent.start_date \notin {None, Some("")})
        /\ IF flightCalls > 0
           THEN 3 * R.confidence_score = 6 * (IntentTerm + PlanTerm + FlightTerm)
           ELSE 2 * R.confidence_score = 6 * (IntentTerm + PlanTerm)

\* flights were requested but the intent has no destination: two terms, and a
\* plan shorter than asked for
C7_Witness ==
    /\ Returned
    /\ request.include_flights
    /\ R.intent.destination = None
    /\ flightCalls = 0
    /\ PlanTerm = 70
    /\ 2 * R.confidence_score = 6 * (IntentTerm + 70)

FlightsSearched == flightCalls > 0

\* C12: search_flights never raises: whatever the pricing service does
\* (authentication failure, transport error, a status other than 200, a body
\* that does not parse) it returns a FlightSearchResult, and every result with
\* search_success false has no offer and a non-empty error_message.
C12_SearchNeverRaises ==
    /\ pc = "raised" => ~FlightsSearched
    /\ FlightsSearched =>
        /\ outbound_flights # None
        /\ DOMAIN outbound_flights[1] = DOMAIN FlightSearchResult("", <<>>, TRUE, None)
        /\ ~outbound_flights[1].search_success =>
              /\ outbound_flights[1].offers = <<>>
              /\ outbound_flights[1].error_message # None
              /\ outbound_flights[1].error_message[1] # ""

\* the body of a 200 answer did not parse, and a failed result was returned
C12_Witness ==
    /\ FlightsSearched
    /\ request.use_real_apis
    /\ pc # "raised"
    /\ outbound_flights # None
    /\ ~outbound_flights[1].search_success
    /\ outbound_flights[1].error_message
          = Some("Expecting value: line 1 column 1 (char 0)")

\* the records of the ledger are all "intent_extraction" up to some point and
\* all "trip_planning" after it
ExtractionThenPlanning(ledger) ==
    \A j, k \in 1..Len(ledger) :
        (j < k /\ ledger[j].operation = "trip_planning")
            => ledger[k].operation = "trip_planning"

\* what one step of process_query does, stage by stage
StageStep ==
    /\ pc = "extract" =>
          /\ pc' = "validate"
          /\ intent' # None /\ validation' = None /\ trip_plan' = None
          /\ RecordsOf("trip_planning")' = <<>>
    /\ pc = "validate" =>
          /\ pc' = "plan"
          /\ validation' # None /\ planResp' = None /\ requests' = requests
    /\ pc = "plan" =>
          /\ pc' \in {"flights", "raised"}
          /\ planResp' # None /\ flightCalls' = 0 /\ outbound_flights' = None
          /\ pc' = "flights" <=> trip_plan' # None
    /\ pc = "flights" =>
          /\ pc' = "cost"
          /\ flightCalls' <= 1 /\ total_cost' = 0 /\ requests' = requests
    /\ pc = "cost" =>
          /\ pc' = "confidence"
          /\ outbound_flights' = outbound_flights /\ recommendation' = None
    /\ pc = "confidence" =>
          /\ pc' = "done"
          /\ recommendation' # None
          /\ recommendation'[1].total_cost_estimate = total_cost

\* C28: within one process_query the stages run strictly in the order intent
\* extraction, intent validation, plan generation, optional flight search,
\* cost, confidence, each finished before the next starts; plan generation is
\* invoked on every request whatever validate_intent returns; and the ledger
\* records of the request come in the order "intent_extraction" then
\* "trip_planning".
C28_StageOrder ==
    /\ [](pc = "plan" => (validation # None /\ ENABLED PlanTrip))
    /\ [](ExtractionThenPlanning(requests))
    /\ [](pc \in {"flights", "cost", "confidence", "done"} =>
            (RecordsOf("intent_extraction") # <<>> /\ RecordsOf("trip_planning") # <<>>))
    /\ [][StageStep]_vars

\* an intent that validate_intent found invalid, and the plan generated all the same
C28_Witness ==
    /\ pc = "done"
    /\ validation # None
    /\ ~validation[1].is_valid
    /\ intent[1].confidence_score = 10
    /\ trip_plan # None
    /\ Len(requests) = 2
    /\ requests[1].operation = "intent_extraction"
    /\ requests[2].operation = "trip_planning"

Has(field) == field \notin {None, Some("")}
PastFlights == pc \in {"cost", "confidence", "done"}
OfferQueries == SelectSeq(sent, LAMBDA q : q.kind = "offers")

\* the parts of C25 other than "outbound only"
C25_SearchCondition ==
    /\ return_flights = None
    /\ recommendation # None => recommendation[1].return_flights = None
    /\ flightCalls <= 1
    /\ ~request.use_real_apis => sent = <<>>
    /\ PastFlights =>
        /\ FlightsSearched <=> (/\ request.include_flights
                                 /\ Has(intent[1].destination)
                                 /\ Has(intent[1].start_date))
        /\ ~FlightsSearched => (outbound_flights = None /\ sent = <<>>)
        /\ intent[1].confidence_score = 10 => ~FlightsSearched
        /\ (FlightsSearched /\ request.use_real_apis) => sent # <<>>
        /\ (FlightsSearched /\ ~request.use_real_apis) =>
              /\ outbound_flights # None
              /\ outbound_flights[1].search_success
              /\ Len(outbound_flights[1].offers) = 3

\* C25: in process_query a flight search is performed iff include_flights is
\* true and the intent has both a destination and a start date; the search is
\* for outbound flights only, made with the pricing service when use_real_apis
\* is set and with the offline mock, the pricing service not contacted,
\* otherwise; return_flights of every recommendation is None, and
\* outbound_flights is None whenever no search was made, in particular when
\* extraction fell back to the default intent.
C25_OutboundSearchOnly ==
    /\ C25_SearchCondition
    /\ \A k \in 1..Len(OfferQueries) : OfferQueries[k].returnDate = None

Flags(v, field) == \E k \in 1..Len(v.missing) : v.missing[k] = field

\* C13 as stated: "dates or duration" is listed iff start_date and
\* duration_days are both absent, a duration of 0 counting as absent.
C13_AsStated ==
    [][pc = "validate" =>
        LET i == intent[1]
            v == validation'[1]
        IN  /\ intent' = intent
            /\ Flags(v, "destination") <=> i.destination \in {None, Some("")}
            /\ Flags(v, "dates or duration")
                  <=> (i.start_date = None /\ i.duration_days \in {None, Some(0)})
            /\ Flags(v, "high confidence extraction") <=> i.confidence_score < 30
            /\ v.is_valid <=> v.missing = <<>>]_vars

\* C13, amended: validate_intent lists "destination" iff the destination is
\* absent or empty, "dates or duration" iff start_date is absent or empty and
\* duration_days is absent or 0, and "high confidence extraction" iff
\* confidence_score < 0.3 (0.3 itself is not flagged); is_valid is true iff the
\* list is empty, and the intent is not modified.
C13_ValidateIntent ==
    [][pc = "validate" =>
        LET i == intent[1]
            v == validation'[1]
        IN  /\ intent' = intent
            /\ Flags(v, "destination") <=> i.destination \in {None, Some("")}
            /\ Flags(v, "dates or duration")
                  <=> (/\ i.start_date \in {None, Some("")}
                       /\ i.duration_days \in {None, Some(0)})
            /\ Flags(v, "high confidence extraction") <=> i.confidence_score < 30
            /\ v.is_valid <=> v.missing = <<>>
            /\ Len(v.missing) <= 3]_vars

\* an empty start date with a duration of 0 and a confidence of exactly 0.3:
\* only "dates or duration" is listed
C13_Witness ==
    /\ pc = "plan"
    /\ validation # None
    /\ intent[1].destination = Some("Paris")
    /\ intent[1].start_date = Some("")
    /\ intent[1].duration_days = Some(0)
    /\ intent[1].confidence_score = 30
    /\ validation[1] = [is_valid |-> FALSE, missing |-> <<"dates or duration">>]

PlanReturned == trip_plan # None

\* C14: every TripPlan returned by plan_trip for an intent with
\* duration_days = n has exactly n DayPlan entries, with day indices 1..n in
\* order, whatever the text service answered.
C14_ExactDayCount ==
    (PlanReturned /\ intent[1].duration_days # None) =>
        LET n == intent[1].duration_days[1]
            days == trip_plan[1].daily_plans
        IN  /\ Len(days) = n
            /\ \A k \in 1..Len(days) : days[k].day = k

\* the three ways a text may carry the payload
Carries(text, payload) ==
    text \in {Serial(payload), InJsonFence(Serial(payload)),
              InBareFence(Serial(payload))}

\* C17: for every JSON object J, the fence stripping followed by the parse
\* gives the same structured result, that of J, for J in a json fence, J in a
\* bare fence and J unfenced, also when J holds a triple-backtick sequence
\* inside a string value.
C17_FenceStripping ==
    (/\ ExtractReturned
     /\ ~intentResp[1].raises
     /\ intentResp[1].payload.kind = "object"
     /\ ~FailsIntentSchema(intentResp[1].payload)
     /\ Carries(intentResp[1].text, intentResp[1].payload))
    => intent[1] = ValidateTravelIntent(intentResp[1].payload,
                                        request.user_query).value

\* C17 without the backticks: an object that holds no triple-backtick sequence
\* is recovered from the three wrappings alike
C17_FenceStrippingPlainObject ==
    (/\ ExtractReturned
     /\ ~intentResp[1].raises
     /\ intentResp[1].payload.kind = "object"
     /\ ~FailsIntentSchema(intentResp[1].payload)
     /\ ~HoldsTicks(intentResp[1].payload)
     /\ Carries(intentResp[1].text, intentResp[1].payload))
    => intent[1] = ValidateTravelIntent(intentResp[1].payload,
                                        request.user_query).value

----------------------------------------------------------------------------
(* Properties of the tracker under two writers *)

Appended(w) == writers[w].pc \in {"reset", "done"}

\* C29: when two components use the shared tracker concurrently, their
\* start_request and end_request calls interleaving in any order, every
\* end_request completes without error and appends exactly one record, no
\* record is lost, and each record is independent of the other writer: its
\* latency is measured from its own caller's start_request, not from the
\* other's, and is not reset to 0 by the other's end_request.
C29_IndependentRecords ==
    /\ \A w \in DOMAIN writers : writers[w].pc # "raised"
    /\ Len(requests) = Cardinality({w \in DOMAIN writers : Appended(w)})
    /\ \A w \in DOMAIN writers :
          Appended(w) =>
              LET recs == RecordsOf(writers[w].operation)
              IN  /\ Len(recs) = 1
                  /\ recs[1].latency_ms = writers[w].measured_at - writers[w].started_at

\* an end_request that raised: the other writer reset _start_time between its
\* test and its subtraction
C29_Raised == \E w \in DOMAIN writers : writers[w].pc = "raised"

\* the part of C29 that the interleavings keep: a record appended is never lost
C29_NoRecordLost ==
    /\ Len(requests) = Cardinality({w \in DOMAIN writers : Appended(w)})
    /\ \A w \in DOMAIN writers :
          Appended(w) => Len(RecordsOf(writers[w].operation)) = 1

----------------------------------------------------------------------------
(* Properties of the web page *)

\* what the run just made did to the two stored entries
SessionStep ==
    runs' # runs =>
        LET did == runs'[Len(runs')]
        IN  /\ did = "planned" =>
                  /\ session_state'.recommendation # None
                  /\ session_state'.recommendation # session_state.recommendation
                  /\ session_state'.evaluation = None
            /\ did = "new trip" =>
                  /\ session_state'.recommendation = None
                  /\ session_state'.evaluation = None
            /\ did \in {"plan failed", "plan ignored"} =>
                  /\ session_state'.recommendation = session_state.recommendation
                  /\ session_state'.evaluation = session_state.evaluation

\* C30: in the web session, after any sequence of Plan My Trip, Evaluate and
\* New Trip actions, failing Plan actions included, a stored evaluation belongs
\* to the stored recommendation: evaluation is set only if a recommendation is
\* stored and the evaluation was computed from exactly that recommendation; a
\* successful Plan clears the evaluation, New Trip clears both, and a failed
\* Plan leaves both unchanged.
C30_EvaluationOfStoredRecommendation ==
    /\ [](session_state.evaluation # None =>
            /\ session_state.recommendation # None
            /\ session_state.evaluation[1].of = session_state.recommendation[1])
    /\ [][SessionStep]_vars

\* an evaluation stored, then a failed Plan, then a successful one
C30_Witness ==
    /\ Len(runs) = 4
    /\ runs[2] = "evaluated"
    /\ runs[3] = "plan failed"
    /\ runs[4] = "planned"
    /\ session_state.recommendation # None
    /\ session_state.recommendation[1].run = 4
    /\ session_state.evaluation = None

----------------------------------------------------------------------------
(* Properties of the token cache *)

AuthSent(c) == \E k \in 1..Len(c.sent) : c.sent[k].kind = "auth"
OffersSent(c) == \E k \in 1..Len(c.sent) : c.sent[k].kind = "offers"
\* a token is held whose deadline is after time t
Cached(api, t) ==
    /\ api.access_token \notin {None, Some("")}
    /\ api.token_expires_at # None
    /\ api.token_expires_at[1] > t
Lifetime(out) == IF out.expires_in = None THEN 1800 ELSE out.expires_in[1]

C26_WitnessExpired ==
    /\ Len(searches) = 2
    /\ searches[2].before.access_token # None
    /\ searches[2].before.token_expires_at = Some(searches[2].t)
    /\ AuthSent(searches[2])

----------------------------------------------------------------------------
(* Properties of batch_evaluate *)

BatchReturned == bpc = "done"
Count(h, g) == IF g \in DOMAIN h THEN h[g] ELSE 0

\* C15: batch_evaluate returns an aggregate record for every list of
\* recommendations, the empty list included, without raising: total_evaluated
\* is the length of the list, the items are evaluated in list order, and the
\* counts of the grade histogram sum to total_evaluated.
C15_BatchAlwaysReturns ==
    /\ bpc # "raised"
    /\ \A k \in 1..Len(results) :
          results[k].has_critical_errors
              <=> recommendations[k].trip_plan.daily_plans = <<>>
    /\ BatchReturned =>
        LET a == aggregate[1]
            h == a.grade_distribution
        IN  /\ a.total_evaluated = Len(recommendations)
            /\ Len(a.all_metrics) = Len(recommendations)
            /\ Count(h, "A") + Count(h, "B") + Count(h, "C") + Count(h, "D")
                + Count(h, "F") = a.total_evaluated

LedgerCost == SumSeq([k \in 1..Len(requests) |-> requests[k].cost_usd])

\* C16: the total_cost_usd reported by batch_evaluate is the tracker's running
\* total and not a sum of per-item values: it never exceeds the sum of
\* cost_usd over the ledger at the moment batch_evaluate returns (half a
\* ten-thousandth of a dollar being allowed for the rounding to four decimals).
C16_BatchCostWithinLedger ==
    BatchReturned => 100 * aggregate[1].total_cost_usd <= LedgerCost + 50

----------------------------------------------------------------------------
(* Properties of _get_airport_code *)

\* the rows of the table whose key the location contains
ContainedRows ==
    {k \in 1..Len(airport_map) : Contains(Lower(location[1]), airport_map[k].key)}

LongestRows ==
    {k \in ContainedRows :
        \A j \in ContainedRows : Len(airport_map[j].key) <= Len(airport_map[k].key)}

\* C19: the resolution is a longest-substring match: a location that
\* contains more than one key of the table gets the code of the longest key it
\* contains, and a location that contains none gets JFK.
C19_LongestKeyWins ==
    airport_code # None =>
        /\ ContainedRows = {} => airport_code[1] = "JFK"
        /\ ContainedRows # {} =>
              \E k \in LongestRows : airport_code[1] = airport_map[k].code

\* C27: the resolution is deterministic and case-insensitive: the code returned
\* is that of the first entry, in the order the table is declared, whose key
\* the lowercased location contains, JFK when there is none; two locations that
\* differ only in case get the same code.
C27_FirstKeyWins ==
    airport_code # None =>
        /\ ContainedRows = {} => airport_code[1] = "JFK"
        /\ ContainedRows # {} =>
              \E k \in ContainedRows :
                  /\ \A j \in ContainedRows : k <= j
                  /\ airport_code[1] = airport_map[k].code
        /\ \A other \in Locations :
              Lower(other) = Lower(location[1])
                  => get_airport_code(other) = airport_code[1]

\* a capitalised location holding two keys: Paris comes first in the table
C27_Witness ==
    /\ location = Some(<<"T", "O", "K", "Y", "O", ",", " ", "P", "a", "r", "i", "s">>)
    /\ airport_code = Some("CDG")

----------------------------------------------------------------------------
(* Properties of the metrics tracker *)

\* sm is the fold of the ledger
FoldOf(sm, ledger) ==
    /\ sm.total_requests = Len(ledger)
    /\ sm.total_tokens
         = SumSeq([k \in 1..Len(ledger) |->
                      ledger[k].input_tokens + ledger[k].output_tokens])
    /\ LET cost == SumSeq([k \in 1..Len(ledger) |-> ledger[k].cost_usd])
       IN  /\ 100 * sm.total_cost_usd - cost <= 50
           /\ cost - 100 * sm.total_cost_usd <= 50

\* C18: the ledger is append-only: whatever start_request, end_request,
\* get_summary and export_json do, no record is removed, reordered or changed
\* and the ledger never gets shorter; get_summary is a fold over the ledger
\* (total_requests the number of records, total_tokens the sum of input and
\* output tokens, total_cost_usd the sum of the costs, rounded) and does not
\* modify it, and neither does export_json.
C18_LedgerAppendOnly ==
    [][/\ Len(requests') >= Len(requests)
       /\ SubSeq(requests', 1, Len(requests)) = requests
       /\ summary' # summary =>
             (requests' = requests /\ FoldOf(summary'[1], requests))
       /\ exported' # exported =>
             (requests' = requests /\ FoldOf(exported'[1].summary, requests))]_vars

\* a second record was appended after a summary of the first had been taken,
\* and the new summary counts both
C18_Witness ==
    /\ Len(requests) = 2
    /\ requests[1].cost_usd > 0
    /\ requests[2].cost_usd > 0
    /\ summary # None
    /\ summary[1].total_requests = 2
    /\ summary[1].total_tokens
         = requests[1].input_tokens + requests[1].output_tokens
           + requests[2].input_tokens + requests[2].output_tokens
    /\ exported # None
    /\ exported[1].summary.total_requests = 1

============================================================================
